---- MODULE Spec2Model ----
(***************************************************************************)
(* Model of the Rust bindings of the MXL shared-memory media-exchange       *)
(* library: the instance context and its reference count, the reader and   *)
(* writer wrappers with their native handles, the RAII write sessions, the *)
(* get_complete_grain loop, the status mapping and get_flow_def.           *)
(* The native library is reachable only through its C ABI; its behaviour    *)
(* is the environment of the bindings.                                      *)
(***************************************************************************)
EXTENDS Integers, Sequences, FiniteSets, Bags, TLC

VARIABLES
    strong,     \* strong count of Arc<InstanceContext>; 0 once the context is dropped
    clones,     \* number of live MxlInstance values (each owns one Arc)
    instance,   \* InstanceContext.instance: the native instance handle or NULL
    destroyed,  \* arguments of the native destroy-instance calls, in order
    wrappers,   \* wrapper slot -> [st, kind, handle]
    released,   \* wrapper slot -> native release calls issued on its handle so far
    tmpLive,    \* temporary readers of get_flow_type created and not yet released
    sessions,   \* the bag of live write sessions (GrainWriteAccess, SamplesWriteAccess)
    flow,       \* native flow: [format, head, commitedSize (of the grain at head)]
    ret,        \* what the most recent operation returned
    rd,         \* the get_complete_grain invocation of the reader thread
    fd,         \* the get_flow_def invocation
    sc,         \* the status-mapping invocation
    th,         \* threads: who owns the writer, who holds a clone, who is in which call
    gd,         \* the get_grain_non_blocking invocation and the GrainData it returned
    rs,         \* the read_samples invocation of the example reader
    api,        \* the load_api invocation, the API handle and what was done through it
    views,       \* reader slot -> live GrainData / SamplesData views borrowed from it
    fi,      \* the FlowInfo last returned by get_info and what its accessors answered
    du,      \* the Duration at hand and the nanosecond count last handed to the native library
    cr      \* the last create call: its string argument, what the native call reported, the wrappers alive before it

\* the state of the threading model, of the non-blocking read and of read_samples
auxVars == <<th, gd, rs, api, views, fi, du, cr>>

vars == <<strong, clones, instance, destroyed, wrappers, released, tmpLive,
          sessions, flow, ret, rd, fd, sc, auxVars>>

(***************************************************************************)
(* Bounds of the model.                                                     *)
(***************************************************************************)
MaxWrappers == 1
MaxSessions == 2
MaxClones == 2
MaxIndex == 1
GrainSize == 2
MaxTimeout == 2
MaxPolls == 2
MaxLen == 2
MaxExtra == 2
MaxThreads == 2
MaxBatchSize == 2
MaxHead == 4
TableSize == 5

\* a null pointer, a reader or writer handle, the instance handle
NULL == <<>>
Handle(w) == <<w>>
INST == <<"instance">>

WrapperIds == 1..MaxWrappers
Indices == 1..MaxIndex

(***************************************************************************)
(* Status codes of the native ABI and their mapping to the error enum.      *)
(***************************************************************************)
KnownErrors ==
    {"MXL_ERR_UNKNOWN", "MXL_ERR_FLOW_NOT_FOUND", "MXL_ERR_OUT_OF_RANGE_TOO_LATE",
     "MXL_ERR_OUT_OF_RANGE_TOO_EARLY", "MXL_ERR_INVALID_FLOW_READER",
     "MXL_ERR_INVALID_FLOW_WRITER", "MXL_ERR_TIMEOUT", "MXL_ERR_INVALID_ARG",
     "MXL_ERR_CONFLICT"}

\* status values the binding has no match arm for
UnlistedStatuses == {"UNLISTED_10", "UNLISTED_11", "UNLISTED_NEG_1"}

StatusValues == {"MXL_STATUS_OK"} \cup KnownErrors \cup UnlistedStatuses

\* a mapping with no arm for MXL_ERR_TIMEOUT
FromStatusDropsTimeout(status) ==
    CASE status = "MXL_STATUS_OK" -> "Ok"
      [] status = "MXL_ERR_UNKNOWN" -> "Unknown"
      [] status = "MXL_ERR_FLOW_NOT_FOUND" -> "FlowNotFound"
      [] status = "MXL_ERR_OUT_OF_RANGE_TOO_LATE" -> "OutOfRangeTooLate"
      [] status = "MXL_ERR_OUT_OF_RANGE_TOO_EARLY" -> "OutOfRangeTooEarly"
      [] status = "MXL_ERR_INVALID_FLOW_READER" -> "InvalidFlowReader"
      [] status = "MXL_ERR_INVALID_FLOW_WRITER" -> "InvalidFlowWriter"
      [] status = "MXL_ERR_INVALID_ARG" -> "InvalidArg"
      [] status = "MXL_ERR_CONFLICT" -> "Conflict"
      [] OTHER -> "Unknown"

\* Error::from_status
FromStatus(status) ==
    CASE status = "MXL_STATUS_OK" -> "Ok"
      [] status = "MXL_ERR_UNKNOWN" -> "Unknown"
      [] status = "MXL_ERR_FLOW_NOT_FOUND" -> "FlowNotFound"
      [] status = "MXL_ERR_OUT_OF_RANGE_TOO_LATE" -> "OutOfRangeTooLate"
      [] status = "MXL_ERR_OUT_OF_RANGE_TOO_EARLY" -> "OutOfRangeTooEarly"
      [] status = "MXL_ERR_INVALID_FLOW_READER" -> "InvalidFlowReader"
      [] status = "MXL_ERR_INVALID_FLOW_WRITER" -> "InvalidFlowWriter"
      [] status = "MXL_ERR_TIMEOUT" -> "Timeout"
      [] status = "MXL_ERR_INVALID_ARG" -> "InvalidArg"
      [] status = "MXL_ERR_CONFLICT" -> "Conflict"
      [] OTHER -> "Unknown"

\* status_to_result of the first iteration of the binding (MxlError)
status_to_result(status) ==
    CASE status = "MXL_STATUS_OK" -> "Ok"
      [] status = "MXL_ERR_UNKNOWN" -> "Unknown"
      [] status = "MXL_ERR_FLOW_NOT_FOUND" -> "FlowNotFound"
      [] status = "MXL_ERR_OUT_OF_RANGE_TOO_LATE" -> "OutOfRangeTooLate"
      [] status = "MXL_ERR_OUT_OF_RANGE_TOO_EARLY" -> "OutOfRangeTooEarly"
      [] status = "MXL_ERR_INVALID_FLOW_READER" -> "InvalidFlowReader"
      [] status = "MXL_ERR_INVALID_FLOW_WRITER" -> "InvalidFlowWriter"
      [] status = "MXL_ERR_TIMEOUT" -> "Timeout"
      [] status = "MXL_ERR_INVALID_ARG" -> "InvalidArg"
      [] status = "MXL_ERR_CONFLICT" -> "Conflict"
      [] OTHER -> "Unknown"

\* what a native call of the lifecycle operations may report
NativeStatuses == {"MXL_STATUS_OK", "MXL_ERR_UNKNOWN"}

(***************************************************************************)
(* Data formats of a flow.                                                  *)
(***************************************************************************)
DataFormats == {"video", "audio"}

\* every value a flow's data format field can take: the four named formats,
\* zero, and any other number
AllDataFormats == {"unspecified", "video", "audio", "data", "mux", "unknown"}

\* a format test that forgets the data format
VideoOnlyIsDiscrete(format) == format = "video"

\* is_discrete_data_format
is_discrete_data_format(format) == format = "video" \/ format = "data"

(***************************************************************************)
(* The shared instance context (Arc<InstanceContext>).                      *)
(***************************************************************************)
\* Drop for InstanceContext: the native call it issues, as a sequence
ContextDrop(inst) == IF inst # NULL THEN <<inst>> ELSE <<>>

\* InstanceContext::destroy: swaps the handle out, then passes the field
ContextDestroy(inst) == [instance |-> NULL, calls |-> <<NULL>>]

\* dropping one Arc<InstanceContext>; the last one drops the context
ReleaseArc ==
    /\ strong' = strong - 1
    /\ destroyed' = IF strong = 1 THEN destroyed \o ContextDrop(instance) ELSE destroyed
    /\ UNCHANGED instance

\* an object built without taking a reference of its own
CloneArcKeepsCount(n) == n

\* context.clone()
CloneArc(n) == n + 1


(***************************************************************************)
(* Reader and writer wrappers.                                              *)
(***************************************************************************)
NoWrapper == [st |-> "none", kind |-> "none", handle |-> NULL]

GenericKinds == {"FlowReader", "MxlFlowWriter"}
TypedReaders == {"GrainReader", "SamplesReader"}
TypedWriters == {"GrainWriter", "SamplesWriter"}
TypedKinds == TypedReaders \cup TypedWriters
ArcKinds == GenericKinds \cup TypedKinds
BorrowKinds == {"MxlFlowReader"}

Live(w) == wrappers[w].st = "live"

\* the slot the next wrapper is constructed in
FreeSlots == {w \in WrapperIds : wrappers[w].st = "none"}
FreeSlot == CHOOSE w \in FreeSlots : \A v \in FreeSlots : w <= v

\* counts the native release calls `calls` (a sequence of handles)
AddReleases(rel, calls) ==
    [h \in DOMAIN rel |->
        rel[h] + Cardinality({i \in DOMAIN calls : calls[i] = Handle(h)})]

\* a release that leaves the handle in the wrapper
DestroyInnerKeepsHandle(handle, status) ==
    IF handle = NULL
    THEN [handle |-> NULL, result |-> "InvalidArg", calls |-> <<>>]
    ELSE [handle |-> handle, result |-> FromStatus(status), calls |-> <<handle>>]

\* destroy_inner of GrainReader, SamplesReader, GrainWriter, SamplesWriter
DestroyInner(handle, status) ==
    IF handle = NULL
    THEN [handle |-> NULL, result |-> "InvalidArg", calls |-> <<>>]
    ELSE [handle |-> NULL, result |-> FromStatus(status), calls |-> <<handle>>]

\* the error! call of a Drop: once if the native call it made failed
DropLogs(calls, status) ==
    IF calls # <<>> /\ FromStatus(status) # "Ok" THEN 1 ELSE 0

\* a Drop that releases again when the release failed
TypedDropRetries(handle, status) ==
    IF handle # NULL
    THEN [handle |-> NULL, result |-> "Ok",
          calls |-> IF FromStatus(status) # "Ok" THEN <<handle, handle>> ELSE <<handle>>]
    ELSE [handle |-> handle, result |-> "Ok", calls |-> <<>>]

\* Drop of the typed wrappers: destroy_inner unless the handle is null
TypedDrop(handle, status) ==
    IF handle # NULL
    THEN DestroyInner(handle, status)
    ELSE [handle |-> handle, result |-> "Ok", calls |-> <<>>]

\* Drop of FlowReader / MxlFlowWriter: release unless the handle is null
GenericDrop(handle) == IF handle # NULL THEN <<handle>> ELSE <<>>

\* MxlFlowReader::destroy(&mut self) of the first iteration of the binding
MxlFlowReaderDestroy(handle, status) ==
    IF handle = NULL
    THEN [handle |-> NULL, result |-> "InvalidArg", calls |-> <<>>]
    ELSE [handle |-> NULL, result |-> status_to_result(status), calls |-> <<handle>>]

\* Drop for MxlFlowReader<'_>
MxlFlowReaderDrop(handle, status) ==
    IF handle # NULL
    THEN MxlFlowReaderDestroy(handle, status)
    ELSE [handle |-> handle, result |-> "Ok", calls |-> <<>>]

(***************************************************************************)
(* Write sessions (GrainWriteAccess, SamplesWriteAccess).                   *)
(***************************************************************************)
\* the fields of a session as open_grain / open_samples construct it
NewSession(w, index, head) ==
    [w |-> w, index |-> index, committed_or_canceled |-> FALSE, headAtOpen |-> head]

OpenSessions == BagToSet(sessions)

\* a reader borrowed by a live GrainData<'a> or SamplesData<'a> cannot be moved or
\* dropped
NoLiveView(w) == views[w] = 0

\* as if sessions did not borrow the writer
BorrowNotChecked(w) == TRUE

\* a wrapper borrowed by a live write session cannot be moved or dropped
NoOpenSession(w) == \A s \in OpenSessions : s.w # w

\* a commit that passes any size on to the native library
GrainCommitUnchecked(commited_size, grainSize, status) ==
    [flag |-> TRUE, result |-> FromStatus(status), calls |-> <<"commit">>]

\* GrainWriteAccess::commit up to its return: the flag, the result and the native calls
GrainCommit(commited_size, grainSize, status) ==
    IF commited_size > grainSize
    THEN [flag |-> TRUE, result |-> "Other", calls |-> <<>>]
    ELSE [flag |-> TRUE, result |-> FromStatus(status), calls |-> <<"commit">>]

\* SamplesWriteAccess::commit
SamplesCommit(status) ==
    [flag |-> TRUE, result |-> FromStatus(status), calls |-> <<"commit">>]

\* a cancel that publishes the grain
SessionCancelCommits(status) ==
    [flag |-> TRUE, result |-> FromStatus(status), calls |-> <<"commit">>]

\* a cancel that leaves the flag unset
SessionCancelKeepsFlag(status) ==
    [flag |-> FALSE, result |-> FromStatus(status), calls |-> <<"cancel">>]

\* GrainWriteAccess::cancel / SamplesWriteAccess::cancel
SessionCancel(status) ==
    [flag |-> TRUE, result |-> FromStatus(status), calls |-> <<"cancel">>]

\* Drop for GrainWriteAccess / SamplesWriteAccess: the native calls it issues
SessionDrop(committed_or_canceled) ==
    IF ~committed_or_canceled THEN <<"cancel">> ELSE <<>>

\* the native cancel a session issues: flow_writer_cancel_grain(self.writer)
NativeCancelCall(s) == <<"cancel", Handle(s.w)>>

Count(calls, what) == Cardinality({i \in DOMAIN calls : calls[i] = what})

\* the native library's flow after commit-grain / commit-samples succeeded: the
\* committed index is published as the head, with the size committed there
NativeCommit(f, kind, index, size) ==
    [f EXCEPT !.head = index,
              !.commitedSize = IF kind = "grain" THEN size ELSE @]

\* the flow after the native calls `calls` of a session, each reported as `status`
FlowAfter(f, calls, status, kind, index, size) ==
    IF Count(calls, "commit") > 0 /\ status = "MXL_STATUS_OK"
    THEN NativeCommit(f, kind, index, size)
    ELSE f


(***************************************************************************)
(* What an operation reports: its result, the native calls it made and,     *)
(* when it ends a wrapper or a session, the totals of that object.          *)
(***************************************************************************)
NoRet ==
    [op |-> "none", kind |-> "none", result |-> "Ok", native |-> 0,
     releases |-> 0, commits |-> 0, cancels |-> 0, dropCancels |-> 0,
     logged |-> 0, handle |-> NULL, size |-> 0]

Ret(op, result, native) ==
    [NoRet EXCEPT !.op = op, !.result = result, !.native = native]

(***************************************************************************)
(* Operations on the instance.                                              *)
(***************************************************************************)
\* #[derive(Clone)] for MxlInstance
CloneInstance ==
    /\ clones > 0
    /\ clones < MaxClones
    /\ clones' = clones + 1
    /\ strong' = CloneArc(strong)
    /\ ret' = Ret("clone", "Ok", 0)
    /\ UNCHANGED <<instance, destroyed, wrappers, released, tmpLive, sessions, flow,
                   rd, fd, sc, auxVars>>

\* an MxlInstance value goes out of scope
DropInstance ==
    /\ clones > 0
    /\ clones' = clones - 1
    /\ ReleaseArc
    /\ ret' = Ret("drop_instance", "Ok", Len(destroyed') - Len(destroyed))
    /\ UNCHANGED <<wrappers, released, tmpLive, sessions, flow, rd, fd, sc, auxVars>>

\* a destroy that does not look at the other holders of the context
DestroyInstanceForced ==
    /\ clones > 0
    /\ clones' = clones - 1
    /\ LET d == ContextDestroy(instance) IN
       /\ instance' = d.instance
       /\ destroyed' = destroyed \o d.calls \o ContextDrop(d.instance)
       /\ strong' = strong - 1
       /\ ret' = Ret("destroy_instance", "Ok", Len(d.calls \o ContextDrop(d.instance)))
    /\ UNCHANGED <<wrappers, released, tmpLive, sessions, flow, rd, fd, sc, auxVars>>

\* MxlInstance::destroy
DestroyInstance ==
    /\ clones > 0
    /\ clones' = clones - 1
    /\ IF strong = 1
       THEN \* Arc::into_inner gives the context, which is destroyed and then dropped
            LET d == ContextDestroy(instance) IN
            /\ instance' = d.instance
            /\ destroyed' = destroyed \o d.calls \o ContextDrop(d.instance)
            /\ strong' = 0
            /\ ret' = Ret("destroy_instance", "Ok",
                          Len(d.calls \o ContextDrop(d.instance)))
       ELSE \* Arc::into_inner drops this Arc and gives nothing
            /\ ReleaseArc
            /\ ret' = Ret("destroy_instance", "Other", 0)
    /\ UNCHANGED <<wrappers, released, tmpLive, sessions, flow, rd, fd, sc, auxVars>>

(***************************************************************************)
(* Creating, converting, destroying and dropping wrappers.                  *)
(***************************************************************************)
\* what create_flow_reader / create_flow_writer return for a native status and handle
CreateResult(status, handle) ==
    IF FromStatus(status) # "Ok" THEN FromStatus(status)
    ELSE IF handle = NULL THEN "Other"
    ELSE "Ok"

\* what the native create call may report: a status and the handle it stored
NativeCreates(w) ==
    {<<"MXL_STATUS_OK", Handle(w)>>, <<"MXL_STATUS_OK", NULL>>}
        \cup {<<s, NULL>> : s \in NativeStatuses \ {"MXL_STATUS_OK"}}

NewWrapper(kind, handle) == [st |-> "live", kind |-> kind, handle |-> handle]

\* create_flow_reader from the native call on: `o` is what the native call reports
CreateFlowReaderWith(o) ==
    /\ LET result == CreateResult(o[1], o[2]) IN
        /\ wrappers' = IF result = "Ok"
                       THEN [wrappers EXCEPT ![FreeSlot] = NewWrapper("FlowReader", o[2])]
                       ELSE wrappers
        /\ strong' = IF result = "Ok" THEN CloneArc(strong) ELSE strong
        /\ ret' = Ret("create_flow_reader", result, 1)
    /\ UNCHANGED <<clones, instance, destroyed, released, tmpLive, sessions, flow,
                   rd, fd, sc>>

\* MxlInstance::create_flow_reader
CreateFlowReader ==
    /\ clones > 0
    /\ FreeSlots # {}
    /\ \E o \in NativeCreates(FreeSlot) : CreateFlowReaderWith(o)
    /\ UNCHANGED auxVars

\* create_flow_writer from the native call on: `o` is what the native call reports
CreateFlowWriterWith(o) ==
    /\ LET result == CreateResult(o[1], o[2]) IN
        /\ wrappers' = IF result = "Ok"
                       THEN [wrappers EXCEPT ![FreeSlot] = NewWrapper("MxlFlowWriter", o[2])]
                       ELSE wrappers
        /\ strong' = IF result = "Ok" THEN CloneArc(strong) ELSE strong
        /\ ret' = Ret("create_flow_writer", result, 1)
    /\ UNCHANGED <<clones, instance, destroyed, released, tmpLive, sessions, flow,
                   rd, fd, sc>>

\* MxlInstance::create_flow_writer, given a flow id that is a UUID
CreateFlowWriter ==
    /\ clones > 0
    /\ FreeSlots # {}
    /\ \E o \in NativeCreates(FreeSlot) : CreateFlowWriterWith(o)
    /\ UNCHANGED auxVars

\* create_flow_reader of the first iteration: the reader borrows its MxlInstance,
\* which therefore outlives it
CreateMxlFlowReaderWith(o) ==
    /\ LET result == IF status_to_result(o[1]) # "Ok" THEN status_to_result(o[1])
                      ELSE IF o[2] = NULL THEN "Other" ELSE "Ok" IN
        /\ wrappers' = IF result = "Ok"
                       THEN [wrappers EXCEPT ![FreeSlot] = NewWrapper("MxlFlowReader", o[2])]
                       ELSE wrappers
        /\ ret' = Ret("create_mxl_flow_reader", result, 1)
    /\ UNCHANGED <<strong, clones, instance, destroyed, released, tmpLive, sessions,
                   flow, rd, fd, sc>>

\* MxlInstance::create_flow_reader of the first iteration
CreateMxlFlowReader ==
    /\ FreeSlots # {}
    /\ \E o \in NativeCreates(FreeSlot) : CreateMxlFlowReaderWith(o)
    /\ UNCHANGED auxVars

\* the wrapper in slot w is gone: `calls` are the releases its end issued
EndWrapper(w, op, result, calls, others, logged, handle) ==
    /\ wrappers' = [wrappers EXCEPT ![w] = NoWrapper]
    /\ released' = [released EXCEPT ![w] = 0]
    /\ ret' = [Ret(op, result, others + Len(calls))
                  EXCEPT !.kind = wrappers[w].kind,
                         !.releases = AddReleases(released, calls)[w],
                         !.logged = logged,
                         !.handle = handle]

\* FlowReader::to_grain_reader / to_samples_reader: `want` is the flow class asked for
ConvertReader(w, want, status) ==
    /\ Live(w)
    /\ wrappers[w].kind = "FlowReader"
    /\ LET info == FromStatus(status)
           ok == info = "Ok" /\ is_discrete_data_format(flow.format) = want
           op == IF want THEN "to_grain_reader" ELSE "to_samples_reader"
       IN
       IF ok
       THEN /\ wrappers' = [wrappers EXCEPT ![w] =
                    NewWrapper(IF want THEN "GrainReader" ELSE "SamplesReader", @.handle)]
            /\ ret' = Ret(op, "Ok", 1)
            \* the typed reader clones the context, then the FlowReader drops its own
            /\ strong' = CloneArc(strong) - 1
            /\ UNCHANGED <<destroyed, instance, released>>
       ELSE /\ \E release \in NativeStatuses :
                    EndWrapper(w, op, IF info # "Ok" THEN info ELSE "Other",
                               GenericDrop(wrappers[w].handle), 1,
                               DropLogs(GenericDrop(wrappers[w].handle), release),
                               wrappers[w].handle)
            /\ ReleaseArc
    /\ UNCHANGED <<clones, tmpLive, sessions, flow, rd, fd, sc, auxVars>>

\* a get_flow_type whose temporary reader is forgotten when the info lookup fails
GetFlowTypeLeaksOnError(create, info) ==
    LET made == CreateResult(create[1], create[2]) = "Ok" IN
    [result |-> IF ~made \/ FromStatus(info) # "Ok" THEN "Other" ELSE "Ok",
     created |-> IF made THEN 1 ELSE 0,
     dropped |-> IF made /\ FromStatus(info) = "Ok" THEN 1 ELSE 0,
     native |-> IF made THEN 3 ELSE 1]

\* MxlFlowWriter::get_flow_type: a temporary reader is created, asked and dropped
GetFlowType(create, info) ==
    LET made == CreateResult(create[1], create[2]) = "Ok" IN
    [result |-> IF ~made \/ FromStatus(info) # "Ok" THEN "Other" ELSE "Ok",
     created |-> IF made THEN 1 ELSE 0,
     dropped |-> IF made THEN 1 ELSE 0,
     native |-> IF made THEN 3 ELSE 1]

\* MxlFlowWriter::to_grain_writer / to_samples_writer
ConvertWriter(w, want, create, info) ==
    /\ Live(w)
    /\ wrappers[w].kind = "MxlFlowWriter"
    /\ LET t == GetFlowType(create, info)
           ok == t.result = "Ok" /\ is_discrete_data_format(flow.format) = want
           op == IF want THEN "to_grain_writer" ELSE "to_samples_writer"
       IN
       /\ tmpLive' = tmpLive + t.created - t.dropped
       /\ IF ok
          THEN /\ wrappers' = [wrappers EXCEPT ![w] =
                       NewWrapper(IF want THEN "GrainWriter" ELSE "SamplesWriter", @.handle)]
               /\ ret' = Ret(op, "Ok", t.native)
               \* the typed writer clones the context, then the MxlFlowWriter drops its own
               /\ strong' = CloneArc(strong) - 1
               /\ UNCHANGED <<destroyed, instance, released>>
          ELSE /\ \E release \in NativeStatuses :
                    EndWrapper(w, op, "Other", GenericDrop(wrappers[w].handle),
                               t.native,
                               DropLogs(GenericDrop(wrappers[w].handle), release),
                               wrappers[w].handle)
               /\ ReleaseArc
    /\ UNCHANGED <<clones, sessions, flow, rd, fd, sc, auxVars>>

\* destroy(mut self) of a typed wrapper: destroy_inner, then the wrapper is dropped
DestroyWrapper(w, status, dropStatus) ==
    /\ Live(w)
    /\ wrappers[w].kind \in TypedKinds
    /\ NoOpenSession(w)
    /\ NoLiveView(w)
    /\ LET d == DestroyInner(wrappers[w].handle, status)
           e == TypedDrop(d.handle, dropStatus)
       IN EndWrapper(w, "destroy", d.result, d.calls \o e.calls, 0,
                     DropLogs(e.calls, dropStatus), e.handle)
    /\ ReleaseArc
    /\ UNCHANGED <<clones, tmpLive, sessions, flow, rd, fd, sc, auxVars>>

\* a wrapper holding the context goes out of scope
DropWrapper(w, status) ==
    /\ Live(w)
    /\ wrappers[w].kind \in ArcKinds
    /\ NoOpenSession(w)
    /\ NoLiveView(w)
    /\ IF wrappers[w].kind \in GenericKinds
       THEN EndWrapper(w, "drop", "Ok",
                       GenericDrop(wrappers[w].handle), 0,
                       DropLogs(GenericDrop(wrappers[w].handle), status),
                       wrappers[w].handle)
       ELSE LET e == TypedDrop(wrappers[w].handle, status)
            IN EndWrapper(w, "drop", "Ok", e.calls, 0, DropLogs(e.calls, status),
                          e.handle)
    /\ ReleaseArc
    /\ UNCHANGED <<clones, tmpLive, sessions, flow, rd, fd, sc, auxVars>>

\* MxlFlowReader::destroy(&mut self): the wrapper stays usable
DestroyMxlFlowReader(w, status) ==
    /\ Live(w)
    /\ wrappers[w].kind = "MxlFlowReader"
    /\ LET d == MxlFlowReaderDestroy(wrappers[w].handle, status) IN
       /\ wrappers' = [wrappers EXCEPT ![w] = [@ EXCEPT !.handle = d.handle]]
       /\ released' = AddReleases(released, d.calls)
       /\ ret' = [Ret("destroy_mxl_flow_reader", d.result, Len(d.calls))
                     EXCEPT !.releases = released'[w]]
    /\ UNCHANGED <<strong, clones, instance, destroyed, tmpLive, sessions, flow,
                   rd, fd, sc, auxVars>>

\* an MxlFlowReader<'_> goes out of scope
DropMxlFlowReader(w, status) ==
    /\ Live(w)
    /\ wrappers[w].kind = "MxlFlowReader"
    /\ LET d == MxlFlowReaderDrop(wrappers[w].handle, status)
       IN EndWrapper(w, "drop_mxl_flow_reader", "Ok", d.calls, 0,
                     DropLogs(d.calls, status), d.handle)
    /\ UNCHANGED <<strong, clones, instance, destroyed, tmpLive, sessions, flow,
                   rd, fd, sc, auxVars>>

(***************************************************************************)
(* Opening, committing, canceling and dropping write sessions.              *)
(***************************************************************************)
\* what open_grain returns for a native status and payload pointer
OpenGrainResult(status, payload) ==
    IF FromStatus(status) # "Ok" THEN FromStatus(status)
    ELSE IF payload = NULL THEN "Other"
    ELSE "Ok"

\* what the native open-grain call may report: a status and the payload pointer
NativeOpens ==
    {<<"MXL_STATUS_OK", <<"payload">> >>, <<"MXL_STATUS_OK", NULL>>}
        \cup {<<s, NULL>> : s \in NativeStatuses \ {"MXL_STATUS_OK"}}

\* an open_grain that refuses while a grain of the writer is open
OpenGrainExclusive(w, index) ==
    /\ Live(w)
    /\ wrappers[w].kind = "GrainWriter"
    /\ BagCardinality(sessions) < MaxSessions
    /\ \E o \in NativeOpens :
        LET busy == ~NoOpenSession(w)
            result == IF busy THEN "Other" ELSE OpenGrainResult(o[1], o[2]) IN
        /\ sessions' = IF result = "Ok"
                       THEN sessions (+) SetToBag({NewSession(w, index, flow.head)})
                       ELSE sessions
        /\ strong' = IF result = "Ok" THEN CloneArc(strong) ELSE strong
        /\ ret' = Ret("open_grain", result, IF busy THEN 0 ELSE 1)
    /\ UNCHANGED <<clones, instance, destroyed, wrappers, released, tmpLive, flow,
                   rd, fd, sc, auxVars>>

\* GrainWriter::open_grain
OpenGrain(w, index) ==
    /\ Live(w)
    /\ wrappers[w].kind = "GrainWriter"
    /\ BagCardinality(sessions) < MaxSessions
    /\ \E o \in NativeOpens :
        LET result == OpenGrainResult(o[1], o[2]) IN
        /\ sessions' = IF result = "Ok"
                       THEN sessions (+) SetToBag({NewSession(w, index, flow.head)})
                       ELSE sessions
        /\ strong' = IF result = "Ok" THEN CloneArc(strong) ELSE strong
        /\ ret' = Ret("open_grain", result, 1)
    /\ UNCHANGED <<clones, instance, destroyed, wrappers, released, tmpLive, flow,
                   rd, fd, sc, auxVars>>

\* SamplesWriter::open_samples
OpenSamples(w, index) ==
    /\ Live(w)
    /\ wrappers[w].kind = "SamplesWriter"
    /\ BagCardinality(sessions) < MaxSessions
    /\ \E status \in NativeStatuses :
        LET result == FromStatus(status) IN
        /\ sessions' = IF result = "Ok"
                       THEN sessions (+) SetToBag({NewSession(w, index, flow.head)})
                       ELSE sessions
        /\ strong' = IF result = "Ok" THEN CloneArc(strong) ELSE strong
        /\ ret' = Ret("open_samples", result, 1)
    /\ UNCHANGED <<clones, instance, destroyed, wrappers, released, tmpLive, flow,
                   rd, fd, sc, auxVars>>

SessionKind(s) == IF wrappers[s.w].kind = "GrainWriter" THEN "grain" ELSE "samples"

\* the session s ends through `how`: `op` is what commit or cancel did up to its
\* return, then the session is dropped
EndSession(s, how, op, status, size) ==
    LET drop == SessionDrop(op.flag)
        calls == op.calls \o drop
    IN
    /\ sessions' = sessions (-) SetToBag({s})
    /\ flow' = FlowAfter(flow, calls, status, SessionKind(s), s.index, size)
    /\ ret' = [Ret(how, op.result, Len(calls))
                  EXCEPT !.kind = SessionKind(s),
                         !.commits = Count(calls, "commit"),
                         !.cancels = Count(calls, "cancel"),
                         !.dropCancels = Count(drop, "cancel"),
                         !.logged = DropLogs(drop, status),
                         !.size = IF how = "commit" THEN size ELSE 0]
    /\ ReleaseArc
    /\ UNCHANGED <<clones, wrappers, released, tmpLive, rd, fd, sc, auxVars>>

\* GrainWriteAccess::commit(commited_size)
CommitGrain(s, commited_size, status) ==
    /\ s \in OpenSessions
    /\ SessionKind(s) = "grain"
    /\ EndSession(s, "commit", GrainCommit(commited_size, GrainSize, status), status,
                  commited_size)

\* SamplesWriteAccess::commit
CommitSamples(s, status) ==
    /\ s \in OpenSessions
    /\ SessionKind(s) = "samples"
    /\ EndSession(s, "commit", SamplesCommit(status), status, 0)

\* GrainWriteAccess::cancel / SamplesWriteAccess::cancel
CancelSession(s, status) ==
    /\ s \in OpenSessions
    /\ EndSession(s, "cancel", SessionCancel(status), status, 0)

\* a write session goes out of scope with neither commit nor cancel called
DropSession(s, status) ==
    /\ s \in OpenSessions
    /\ EndSession(s, "session_drop",
                  [flag |-> s.committed_or_canceled, result |-> "Ok", calls |-> <<>>],
                  status, 0)

(***************************************************************************)
(* The lifecycle specification.                                             *)
(***************************************************************************)
\* no get_complete_grain invocation is running; grain_info is zeroed, payload_ptr null
IdleRd ==
    [pc |-> "idle", index |-> 0, timeout |-> 0, waited |-> 0, reads |-> 0,
     afterError |-> 0, status |-> "none", head |-> 0,
     info |-> [commitedSize |-> 0, grainSize |-> 0], payload |-> NULL,
     result |-> "none", payload_len |-> 0]

\* no get_flow_def invocation is running
IdleFd ==
    [pc |-> "idle", D |-> <<>>, nul |-> FALSE, buffer |-> <<>>, buffer_size |-> 0,
     status |-> "none", calls |-> 0, result |-> "none", text |-> <<>>]

\* no status has been mapped yet
NoCall == [fn |-> "none", status |-> "none", result |-> "none"]
IdleSc == [fn |-> "none", status |-> "none", result |-> "none", prev |-> NoCall]

Threads == 1..MaxThreads

\* one thread holds the MxlInstance, no writer exists, nobody is in a call
IdleTh ==
    [owner |-> 0, sessions |-> 0, clonesAt |-> {1}, call |-> [t \in Threads |-> "none"]]

\* no get_grain_non_blocking invocation is running and no GrainData is held;
\* frame is the stack frame of the invocation, where grain_info lives
NoSlice == [storage |-> "none", len |-> 0]
IdleGd ==
    [pc |-> "idle", index |-> 0, status |-> "none", result |-> "none",
     info |-> [commitedSize |-> 0, grainSize |-> 0],
     payload |-> NoSlice, user_data |-> NoSlice, total_size |-> 0,
     frame |-> "none", seen |-> "none", read |-> "none"]

\* read_samples has not been called; headIndex is the head of the continuous flow
IdleRs ==
    [pc |-> "idle", headIndex |-> 0, batch_size |-> 0, read_head |-> 0, next_head |-> 0,
     observed |-> 0, elapsed |-> 0, result |-> "none"]

\* the entries of the function table MxlApi, in the order of its fields
Symbols == 1..TableSize

\* load_api has not been called: no library, no API handle, no instance
IdleApi ==
    [pc |-> "idle", lib |-> {}, opened |-> FALSE, resolved |-> {}, result |-> "none",
     handle |-> NULL, instances |-> 0, called |-> {}]

\* no reader has handed out a view
IdleViews == [w \in WrapperIds |-> 0]

\* no FlowInfo obtained yet
IdleFi == [format |-> "none", discrete |-> "none", continuous |-> "none",
           grain_rate |-> "none", sample_rate |-> "none"]

\* no Duration handed to the native library yet
IdleDu == [op |-> "none", secs |-> 0, nanos |-> 0, ns |-> 0]

\* no create call made yet
IdleCr == [op |-> "none", arg |-> "none", status |-> "none", handle |-> NULL, before |-> 0]

AuxIdle ==
    th = IdleTh /\ gd = IdleGd /\ rs = IdleRs /\ api = IdleApi /\ views = IdleViews
    /\ fi = IdleFi
    /\ du = IdleDu
    /\ cr = IdleCr

NewFlow(format) == [format |-> format, head |-> 0, commitedSize |-> 0]

\* after MxlInstance::new succeeded on a domain holding one flow
Init ==
    /\ strong = 1
    /\ clones = 1
    /\ instance = INST
    /\ destroyed = <<>>
    /\ wrappers = [w \in WrapperIds |-> NoWrapper]
    /\ released = [w \in WrapperIds |-> 0]
    /\ tmpLive = 0
    /\ sessions = EmptyBag
    /\ \E format \in DataFormats : flow = NewFlow(format)
    /\ ret = Ret("new", "Ok", 1)
    /\ rd = IdleRd
    /\ fd = IdleFd
    /\ sc = IdleSc
    /\ AuxIdle

Next ==
    \/ CloneInstance
    \/ DropInstance
    \/ DestroyInstance
    \/ CreateFlowReader
    \/ CreateFlowWriter
    \/ CreateMxlFlowReader
    \/ \E w \in WrapperIds, want \in BOOLEAN, status \in NativeStatuses :
        ConvertReader(w, want, status)
    \/ \E w \in WrapperIds, want \in BOOLEAN, status \in NativeStatuses :
        \E create \in {<<"MXL_STATUS_OK", <<"tmp">> >>, <<"MXL_ERR_UNKNOWN", NULL>>} :
            ConvertWriter(w, want, create, status)
    \/ \E w \in WrapperIds, status \in NativeStatuses : DestroyWrapper(w, status, status)
    \/ \E w \in WrapperIds, status \in NativeStatuses : DropWrapper(w, status)
    \/ \E w \in WrapperIds, status \in NativeStatuses : DestroyMxlFlowReader(w, status)
    \/ \E w \in WrapperIds, status \in NativeStatuses : DropMxlFlowReader(w, status)
    \/ \E w \in WrapperIds, index \in Indices : OpenGrain(w, index)
    \/ \E w \in WrapperIds, index \in Indices : OpenSamples(w, index)
    \/ \E s \in OpenSessions, n \in {GrainSize, GrainSize + 1}, status \in NativeStatuses :
        CommitGrain(s, n, status)
    \/ \E s \in OpenSessions, status \in NativeStatuses : CommitSamples(s, status)
    \/ \E s \in OpenSessions, status \in NativeStatuses : CancelSession(s, status)
    \/ \E s \in OpenSessions, status \in NativeStatuses : DropSession(s, status)

Spec == Init /\ [][Next]_vars


(***************************************************************************)
(* GrainReader::get_complete_grain, run against a GrainWriter of the flow.  *)
(***************************************************************************)
Timeouts == 0..MaxTimeout

objectVars ==
    <<strong, clones, instance, destroyed, wrappers, released, tmpLive, sessions, ret>>

lifecycleVars == <<objectVars, flow>>

\* what mxl_flow_reader_get_grain may report when it returns: the grain at the head
\* (complete or partial) once the head has reached the index, a timeout once the
\* timeout has elapsed with the head still short of it, or a failure at any time
NativeGetGrain(f, index, waited, timeout, info, payload) ==
    (IF f.head = index
     THEN {[status |-> "MXL_STATUS_OK",
            info |-> [commitedSize |-> f.commitedSize, grainSize |-> GrainSize],
            payload |-> p] : p \in {<<"payload">>, NULL}}
     ELSE IF f.head > index
     THEN {[status |-> "MXL_ERR_OUT_OF_RANGE_TOO_LATE", info |-> info, payload |-> payload]}
     ELSE IF waited >= timeout
     THEN {[status |-> "MXL_ERR_TIMEOUT", info |-> info, payload |-> payload]}
     ELSE {})
    \cup {[status |-> "MXL_ERR_UNKNOWN", info |-> info, payload |-> payload]}

\* a loop that reads again after a timeout
GetCompleteGrainLoopRetriesTimeout(status, info, payload) ==
    IF FromStatus(status) = "Timeout"
    THEN [next |-> "continue", result |-> "none", payload_len |-> 0]
    ELSE IF FromStatus(status) # "Ok"
    THEN [next |-> "return", result |-> FromStatus(status), payload_len |-> 0]
    ELSE IF info.commitedSize # info.grainSize
    THEN [next |-> "continue", result |-> "none", payload_len |-> 0]
    ELSE IF payload = NULL
    THEN [next |-> "return", result |-> "Other", payload_len |-> 0]
    ELSE [next |-> "return", result |-> "Ok", payload_len |-> info.grainSize]

\* a loop without the completeness check
GetCompleteGrainLoopTakesPartial(status, info, payload) ==
    IF FromStatus(status) # "Ok"
    THEN [next |-> "return", result |-> FromStatus(status), payload_len |-> 0]
    ELSE IF payload = NULL
    THEN [next |-> "return", result |-> "Other", payload_len |-> 0]
    ELSE [next |-> "return", result |-> "Ok", payload_len |-> info.grainSize]

\* one iteration of the loop of get_complete_grain, after the native read returned
GetCompleteGrainLoop(status, info, payload) ==
    IF FromStatus(status) # "Ok"
    THEN [next |-> "return", result |-> FromStatus(status), payload_len |-> 0]
    ELSE IF info.commitedSize # info.grainSize
    THEN [next |-> "continue", result |-> "none", payload_len |-> 0]
    ELSE IF payload = NULL
    THEN [next |-> "return", result |-> "Other", payload_len |-> 0]
    ELSE [next |-> "return", result |-> "Ok", payload_len |-> info.grainSize]

\* get_complete_grain(index, timeout) is called and issues its first native read
GetCompleteGrain(index, timeout) ==
    /\ rd.pc = "idle"
    /\ rd' = [IdleRd EXCEPT !.pc = "native", !.index = index, !.timeout = timeout,
                            !.reads = 1]
    /\ UNCHANGED <<lifecycleVars, fd, sc, auxVars>>

\* a unit of time passes while the native read waits for the head to reach the index
Tick ==
    /\ rd.pc = "native"
    /\ flow.head < rd.index
    /\ rd.waited < rd.timeout
    /\ rd' = [rd EXCEPT !.waited = @ + 1]
    /\ UNCHANGED <<lifecycleVars, fd, sc, auxVars>>

\* the native read returns
GetGrainReturns ==
    /\ rd.pc = "native"
    /\ \E o \in NativeGetGrain(flow, rd.index, rd.waited, rd.timeout, rd.info, rd.payload) :
        rd' = [rd EXCEPT !.pc = "back", !.status = o.status, !.info = o.info,
                         !.payload = o.payload, !.head = flow.head]
    /\ UNCHANGED <<lifecycleVars, fd, sc, auxVars>>

\* the loop body after the native read: return, or read again with the same timeout.
\* reads counts the native reads up to MaxPolls and stays there.
GetCompleteGrainStep ==
    /\ rd.pc = "back"
    /\ LET l == GetCompleteGrainLoop(rd.status, rd.info, rd.payload) IN
       rd' = IF l.next = "continue"
             THEN [rd EXCEPT !.pc = "native", !.waited = 0,
                             !.reads = IF @ < MaxPolls THEN @ + 1 ELSE @,
                             !.afterError = IF rd.status # "MXL_STATUS_OK" THEN 1 ELSE @]
             ELSE [rd EXCEPT !.pc = "done", !.result = l.result,
                             !.payload_len = l.payload_len]
    /\ UNCHANGED <<lifecycleVars, fd, sc, auxVars>>

\* the caller takes the result
GetCompleteGrainReturns ==
    /\ rd.pc = "done"
    /\ rd' = IdleRd
    /\ UNCHANGED <<lifecycleVars, fd, sc, auxVars>>

\* the writer thread writes one grain: open_grain(index), then commit(commited_size)
\* on the session, which is dropped by the call
WriteGrain(index, commited_size, open, status) ==
    /\ Live(1)
    /\ wrappers[1].kind = "GrainWriter"
    /\ LET op == GrainCommit(commited_size, GrainSize, status)
           calls == op.calls \o SessionDrop(op.flag)
       IN flow' = IF OpenGrainResult(open[1], open[2]) = "Ok"
                  THEN FlowAfter(flow, calls, status, "grain", index, commited_size)
                  ELSE flow
    /\ UNCHANGED <<objectVars, rd, fd, sc, auxVars>>

\* a GrainWriter and a GrainReader of one video flow exist; each holds the context
InitGrain ==
    /\ strong = 3
    /\ clones = 1
    /\ instance = INST
    /\ destroyed = <<>>
    /\ wrappers = [w \in WrapperIds |->
                      IF w = 1 THEN NewWrapper("GrainWriter", Handle(w)) ELSE NoWrapper]
    /\ released = [w \in WrapperIds |-> 0]
    /\ tmpLive = 0
    /\ sessions = EmptyBag
    /\ flow = NewFlow("video")
    /\ ret = Ret("to_grain_writer", "Ok", 3)
    /\ rd = IdleRd
    /\ fd = IdleFd
    /\ sc = IdleSc
    /\ AuxIdle

ReaderRuns == Tick \/ GetGrainReturns \/ GetCompleteGrainStep

NextGrain ==
    \/ \E index \in Indices, timeout \in Timeouts : GetCompleteGrain(index, timeout)
    \/ Tick
    \/ GetGrainReturns
    \/ GetCompleteGrainStep
    \/ GetCompleteGrainReturns
    \/ \E index \in Indices, n \in 0..(GrainSize + 1), open \in NativeOpens,
          status \in NativeStatuses :
        WriteGrain(index, n, open, status)

SpecGrain == InitGrain /\ [][NextGrain]_vars

\* the reader thread keeps running and time keeps passing; the writer owes nothing
SpecGrainFair == SpecGrain /\ WF_vars(ReaderRuns)

(***************************************************************************)
(* Error::from_status and status_to_result applied to status values.        *)
(***************************************************************************)
LastCall == [fn |-> sc.fn, status |-> sc.status, result |-> sc.result]

CallFromStatus(status) ==
    /\ sc' = [fn |-> "from_status", status |-> status, result |-> FromStatus(status),
              prev |-> LastCall]
    /\ UNCHANGED <<lifecycleVars, rd, fd, auxVars>>

CallStatusToResult(status) ==
    /\ sc' = [fn |-> "status_to_result", status |-> status,
              result |-> status_to_result(status), prev |-> LastCall]
    /\ UNCHANGED <<lifecycleVars, rd, fd, auxVars>>

InitStatus ==
    /\ strong = 1
    /\ clones = 1
    /\ instance = INST
    /\ destroyed = <<>>
    /\ wrappers = [w \in WrapperIds |-> NoWrapper]
    /\ released = [w \in WrapperIds |-> 0]
    /\ tmpLive = 0
    /\ sessions = EmptyBag
    /\ flow = NewFlow("video")
    /\ ret = Ret("new", "Ok", 1)
    /\ rd = IdleRd
    /\ fd = IdleFd
    /\ sc = IdleSc
    /\ AuxIdle

NextStatus ==
    \/ \E status \in StatusValues : CallFromStatus(status)
    \/ \E status \in StatusValues : CallStatusToResult(status)

SpecStatus == InitStatus /\ [][NextStatus]_vars

(***************************************************************************)
(* MxlInstance::get_flow_def.                                               *)
(***************************************************************************)
INITIAL_BUFFER_SIZE == 4096

\* vec![0; n]
Zeroed(n) == [i \in 1..n |-> 0]

\* the lengths of the flow definitions tried: short ones and ones around the
\* initial buffer size
DefLens ==
    (0..MaxLen) \cup ((INITIAL_BUFFER_SIZE - MaxExtra)..(INITIAL_BUFFER_SIZE + MaxExtra))

\* a definition text of n bytes: printable ASCII, no NUL (it was passed as a C string)
FlowDef(n, k) == [i \in 1..n |-> 32 + ((i * k) % 95)]

FlowDefs == {FlowDef(n, k) : n \in DefLens, k \in {1, 7}}

\* what mxl_get_flow_def may do with a buffer of `size` bytes for the definition D:
\* with too small a buffer it reports the size required and MXL_ERR_INVALID_ARG;
\* otherwise it writes D and a NUL terminator and reports the size written, which
\* counts the terminator (nul) or not; or it fails and leaves everything alone
NativeGetFlowDef(D, nul, buffer, size) ==
    LET required == Len(D) + (IF nul THEN 1 ELSE 0) IN
    {IF size < required
     THEN [status |-> "MXL_ERR_INVALID_ARG", buffer |-> buffer, size |-> required]
     ELSE [status |-> "MXL_STATUS_OK",
           buffer |-> [i \in 1..Len(buffer) |->
                          IF i <= Len(D) THEN D[i] ELSE IF i = Len(D) + 1 THEN 0
                          ELSE buffer[i]],
           size |-> required]}
    \cup {[status |-> "MXL_ERR_FLOW_NOT_FOUND", buffer |-> buffer, size |-> size]}

\* a second call after any failure of the first
GetFlowDefRetriesAnyError(status, buffer_size) == status # "MXL_STATUS_OK"

\* whether get_flow_def calls the native library a second time
GetFlowDefRetries(status, buffer_size) ==
    status = "MXL_ERR_INVALID_ARG" /\ buffer_size > INITIAL_BUFFER_SIZE

\* the size as reported, terminator included
StripNothing(buffer, buffer_size) == buffer_size

\* the size left once one trailing NUL has been taken off
StripTrailingNul(buffer, buffer_size) ==
    IF buffer_size > 0 /\ buffer[buffer_size] = 0 THEN buffer_size - 1 ELSE buffer_size

\* Vec::truncate
Truncate(buffer, n) == IF n < Len(buffer) THEN SubSeq(buffer, 1, n) ELSE buffer

\* String::from_utf8 on the bytes of the model's alphabet: ASCII is valid
from_utf8(bytes) == \A i \in DOMAIN bytes : bytes[i] < 128

\* get_flow_def is called for a flow whose definition is D
GetFlowDef(D, nul) ==
    /\ fd.pc = "idle"
    /\ fd' = [IdleFd EXCEPT !.pc = "first", !.D = D, !.nul = nul,
                            !.buffer = Zeroed(INITIAL_BUFFER_SIZE),
                            !.buffer_size = INITIAL_BUFFER_SIZE]
    /\ UNCHANGED <<lifecycleVars, rd, sc, auxVars>>

\* the first native call and the decision that follows it
GetFlowDefFirstCall ==
    /\ fd.pc = "first"
    /\ \E o \in NativeGetFlowDef(fd.D, fd.nul, fd.buffer, fd.buffer_size) :
        fd' = IF GetFlowDefRetries(o.status, o.size)
              THEN [fd EXCEPT !.pc = "second", !.status = o.status, !.calls = 1,
                              !.buffer = Zeroed(o.size), !.buffer_size = o.size]
              ELSE IF FromStatus(o.status) # "Ok"
              THEN [fd EXCEPT !.pc = "done", !.status = o.status, !.calls = 1,
                              !.buffer = o.buffer, !.buffer_size = o.size,
                              !.result = FromStatus(o.status)]
              ELSE [fd EXCEPT !.pc = "strip", !.status = o.status, !.calls = 1,
                              !.buffer = o.buffer, !.buffer_size = o.size]
    /\ UNCHANGED <<lifecycleVars, rd, sc, auxVars>>

\* the second native call, into the buffer of the size the first one asked for
GetFlowDefSecondCall ==
    /\ fd.pc = "second"
    /\ \E o \in NativeGetFlowDef(fd.D, fd.nul, fd.buffer, fd.buffer_size) :
        fd' = IF FromStatus(o.status) # "Ok"
              THEN [fd EXCEPT !.pc = "done", !.status = o.status, !.calls = 2,
                              !.buffer = o.buffer, !.buffer_size = o.size,
                              !.result = FromStatus(o.status)]
              ELSE [fd EXCEPT !.pc = "strip", !.status = o.status, !.calls = 2,
                              !.buffer = o.buffer, !.buffer_size = o.size]
    /\ UNCHANGED <<lifecycleVars, rd, sc, auxVars>>

\* the trailing NUL is taken off, the buffer truncated and turned into a String
GetFlowDefFinish ==
    /\ fd.pc = "strip"
    /\ LET text == Truncate(fd.buffer, StripTrailingNul(fd.buffer, fd.buffer_size)) IN
       fd' = IF from_utf8(text)
             THEN [fd EXCEPT !.pc = "done", !.result = "Ok", !.text = text]
             ELSE [fd EXCEPT !.pc = "done", !.result = "Other"]
    /\ UNCHANGED <<lifecycleVars, rd, sc, auxVars>>

\* the caller takes the result
GetFlowDefReturns ==
    /\ fd.pc = "done"
    /\ fd' = IdleFd
    /\ UNCHANGED <<lifecycleVars, rd, sc, auxVars>>

NextFlowDef ==
    \/ \E D \in FlowDefs, nul \in BOOLEAN : GetFlowDef(D, nul)
    \/ GetFlowDefFirstCall
    \/ GetFlowDefSecondCall
    \/ GetFlowDefFinish
    \/ GetFlowDefReturns

SpecFlowDef == InitStatus /\ [][NextFlowDef]_vars

(***************************************************************************)
(* Properties of the lifecycle specification.                               *)
(***************************************************************************)
DestroyOps == {"destroy", "destroy_mxl_flow_reader"}
WrapperEndOps == {"destroy", "drop", "drop_mxl_flow_reader"}
SessionEndOps == {"commit", "cancel", "session_drop"}

\* the wrappers and sessions that hold an Arc of the instance context
ArcHolders ==
    Cardinality({w \in WrapperIds : Live(w) /\ wrappers[w].kind \in ArcKinds})
        + BagCardinality(sessions)

\* C1: over any sequence of explicit destroy calls and the final Drop, the native
\* release is issued at most once for the handle of a wrapper; a destroy on a
\* wrapper whose handle is null returns InvalidArg with no native call, and the
\* Drop that follows an explicit destroy issues no native call.
C1_ReleaseAtMostOnce ==
    /\ \A w \in WrapperIds : released[w] <= 1
    /\ ret.op \in DestroyOps \cup WrapperEndOps => ret.releases <= 1
    /\ ret.op \in DestroyOps /\ ret.result = "InvalidArg" => ret.native = 0
    /\ ret.op = "destroy" => ret.native = 1 /\ ret.releases = 1
    /\ \A w \in WrapperIds :
        Live(w) /\ wrappers[w].handle = NULL /\ wrappers[w].kind \in BorrowKinds
            => released[w] = 1

\* a second destroy of an MxlFlowReader was refused after the first released the handle
C1_Witness ==
    /\ ret.op = "destroy_mxl_flow_reader"
    /\ ret.result = "InvalidArg"
    /\ ret.native = 0
    /\ \E w \in WrapperIds : Live(w) /\ wrappers[w].handle = NULL /\ released[w] = 1

\* C2: a write session dropped with neither commit nor cancel called issues exactly
\* one native cancel, on drop; a session on which commit or cancel was called
\* issues no native cancel on drop.
C2_CancelOnDropOnly ==
    /\ ret.op = "session_drop" =>
        ret.cancels = 1 /\ ret.dropCancels = 1 /\ ret.commits = 0
    /\ ret.op \in {"commit", "cancel"} => ret.dropCancels = 0

\* a samples session was dropped open, and the drop issued the one native cancel
C2_Witness ==
    /\ ret.op = "session_drop"
    /\ ret.kind = "samples"
    /\ ret.dropCancels = 1
    /\ ret.native = 1

\* C3 (as claimed): by the time a grain write session has been dropped, exactly one
\* native finalize call (commit-grain or cancel-grain) has been issued for it, on
\* every path, the one where commit returns an error included.
C3_FinalizedExactlyOnce ==
    ret.op \in SessionEndOps /\ ret.kind = "grain" => ret.commits + ret.cancels = 1

\* commit(commited_size) with commited_size > grainSize returned an error, and the
\* session was dropped with no native call at all
C3_Witness ==
    /\ ret.op = "commit"
    /\ ret.kind = "grain"
    /\ ret.result = "Other"
    /\ ret.native = 0

\* C4: the native destroy-instance is never issued while a reader, writer or write
\* session of the instance is alive: each holder owns one strong reference, and
\* the call is issued only once the last holder is gone.
C4_DestroyAfterLastHolder ==
    /\ strong = clones + ArcHolders
    /\ destroyed # <<>> => strong = 0 /\ clones = 0 /\ ArcHolders = 0
    /\ Len(destroyed) <= 1

\* the MxlInstance was dropped first; the native destroy-instance was issued when
\* the last wrapper released its handle
C4_Witness ==
    /\ destroyed = <<INST>>
    /\ ret.op \in {"drop", "destroy"}
    /\ ret.releases = 1

\* C8 (as claimed): after a cancel, explicit or by drop, the head index of the flow
\* equals the head index before the session was opened.
C8_HeadAsAtOpen ==
    [][\A s \in OpenSessions :
        (sessions' = sessions (-) SetToBag({s}) /\ ret'.op \in {"cancel", "session_drop"})
            => flow'.head = s.headAtOpen]_vars

\* C8 (amended): a cancel, explicit or by drop, issues exactly one native cancel and
\* no native commit, and the head index of the flow after the cancel equals the
\* head index immediately before the cancel.
C8_CancelKeepsHead ==
    [][ret'.op \in {"cancel", "session_drop"}
        => ret'.commits = 0 /\ ret'.cancels = 1 /\ flow'.head = flow.head]_vars

\* a session was canceled after another session had advanced the head
C8_Witness ==
    /\ ret.op = "cancel"
    /\ ret.cancels = 1
    /\ flow.head > 0

(***************************************************************************)
(* Properties of get_complete_grain.                                        *)
(***************************************************************************)
\* C5: get_complete_grain for an index past the head returns Ok only once the head
\* has reached that index through a commit; a native timeout (the timeout elapsed
\* with the head still short of the index) is returned as Timeout; and a non-OK
\* status of a native read is returned at once, with no native read after it.
C5_OkAfterCommitElseError ==
    /\ rd.afterError = 0
    /\ rd.pc = "done" /\ rd.result = "Ok" =>
        rd.status = "MXL_STATUS_OK" /\ rd.head = rd.index /\ flow.head # 0
    /\ rd.pc \in {"back", "done"} /\ rd.status = "MXL_ERR_TIMEOUT" =>
        rd.waited = rd.timeout /\ rd.head < rd.index
    /\ rd.pc = "done" /\ rd.status = "MXL_ERR_TIMEOUT" => rd.result = "Timeout"
    /\ rd.pc = "done" /\ rd.status # "MXL_STATUS_OK" =>
        rd.result \notin {"Ok", "none"} /\ rd.result = FromStatus(rd.status)

\* the timeout elapsed with no commit at the index, and the call returned Timeout
\* after a single native read
C5_Witness ==
    /\ rd.pc = "done"
    /\ rd.result = "Timeout"
    /\ rd.timeout > 0
    /\ rd.waited = rd.timeout
    /\ rd.reads = 1
    /\ flow.head < rd.index

\* C6 (as claimed): a running get_complete_grain always returns, also when the grain
\* at its index stays partially committed.
C6_AlwaysReturns == (rd.pc = "native") ~> (rd.pc = "done")

\* the grain at the index is partial and the call has read it MaxPolls times already
C6_Witness ==
    /\ rd.pc = "native"
    /\ rd.reads = MaxPolls
    /\ flow.head = rd.index
    /\ flow.commitedSize # GrainSize

\* C7: get_complete_grain returns Ok exactly when the native read reports the grain
\* with its committed size equal to its grain size (and a payload); the payload
\* returned then has the length of the grain size. It never returns Ok for a grain
\* whose committed size differs from its grain size.
C7_OkIffComplete ==
    /\ rd.pc = "done" /\ rd.result = "Ok" =>
        /\ rd.info.commitedSize = rd.info.grainSize
        /\ rd.payload_len = rd.info.grainSize
        /\ rd.payload_len = GrainSize
    /\ rd.pc = "done" /\ rd.status = "MXL_STATUS_OK" /\ rd.payload # NULL =>
        rd.result = "Ok"
    /\ rd.pc = "native" /\ rd.reads > 1 => rd.info.commitedSize # rd.info.grainSize

\* a grain committed with its full size was returned complete
C7_Witness ==
    /\ rd.pc = "done"
    /\ rd.result = "Ok"
    /\ rd.payload_len = GrainSize
    /\ flow.head = rd.index
    /\ flow.commitedSize = GrainSize

(***************************************************************************)
(* Properties of the status mapping.                                        *)
(***************************************************************************)
Mapped(c) == c.fn # "none"

\* C9: from_status and status_to_result return Ok exactly for MXL_STATUS_OK, map the
\* nine known error statuses to nine distinct variants, and map every other status
\* to Unknown.
C9_StatusMapping ==
    /\ \A c \in {LastCall, sc.prev} :
        Mapped(c) =>
            /\ c.result = "Ok" <=> c.status = "MXL_STATUS_OK"
            /\ c.status \in UnlistedStatuses => c.result = "Unknown"
            /\ c.status = "MXL_ERR_UNKNOWN" => c.result = "Unknown"
            /\ c.result \notin {"Other", "none"}
    /\ Mapped(LastCall) /\ Mapped(sc.prev) =>
        /\ sc.status = sc.prev.status => sc.result = sc.prev.result
        /\ sc.status \in KnownErrors /\ sc.prev.status \in KnownErrors
              /\ sc.status # sc.prev.status
            => sc.result # sc.prev.result

\* a timeout status was mapped after a status the binding does not list
C9_Witness ==
    /\ sc.fn = "from_status"
    /\ sc.status = "MXL_ERR_TIMEOUT"
    /\ sc.result = "Timeout"
    /\ sc.prev.fn = "status_to_result"
    /\ sc.prev.status \in UnlistedStatuses
    /\ sc.prev.result = "Unknown"

(***************************************************************************)
(* Properties of get_flow_def.                                              *)
(***************************************************************************)
\* the bytes the native library wrote: the first buffer_size bytes of the buffer
Written == Truncate(fd.buffer, fd.buffer_size)

\* C10: for a definition D of any length, longer than the initial buffer included,
\* get_flow_def returns D byte for byte whenever the native library reports success:
\* the bytes the native library wrote less at most one trailing NUL, after at most
\* two native calls.
C10_FlowDefRoundTrip ==
    /\ fd.calls <= 2
    /\ fd.pc = "done" /\ fd.status = "MXL_STATUS_OK" =>
        /\ fd.result = "Ok"
        /\ fd.text = fd.D
        /\ \/ fd.text = Written
           \/ /\ Len(Written) = Len(fd.text) + 1
              /\ Written[Len(Written)] = 0
              /\ fd.text = SubSeq(Written, 1, Len(Written) - 1)
    /\ fd.pc = "second" => Len(fd.D) >= INITIAL_BUFFER_SIZE

\* a definition longer than the initial buffer came back whole after two calls
C10_Witness ==
    /\ fd.pc = "done"
    /\ fd.result = "Ok"
    /\ fd.calls = 2
    /\ Len(fd.D) > INITIAL_BUFFER_SIZE
    /\ fd.text = fd.D

InstanceCalls == {"get_flow_def", "create_flow_writer"}
WriterCalls == {"open_grain", "release"}
SessionCalls == {"commit", "cancel"}
HandleCalls == WriterCalls \cup SessionCalls

\* the threads executing a native call that takes the writer handle, or the instance
InHandle == {t \in Threads : th.call[t] \in HandleCalls}
InInstance == {t \in Threads : th.call[t] \in InstanceCalls}

\* as if the writer were Sync: a shared reference can be used on any thread
WriterSharedAcrossThreads(t) == th.owner # 0

\* the writer is Send and not Sync: only the thread that owns it reaches it
WriterReachableFrom(t) == th.owner = t

\* MxlInstance is Clone, and Send through Arc<InstanceContext>
SendClone(t) ==
    /\ th.clonesAt # {}
    /\ t \notin th.clonesAt
    /\ th' = [th EXCEPT !.clonesAt = @ \cup {t}]
    /\ UNCHANGED <<lifecycleVars, rd, fd, sc, gd, rs, api, views, fi, du, cr>>

\* the owner hands the writer to thread t: not while it is calling through it, and
\* not while a session borrows it
MoveWriter(t) ==
    /\ th.owner \notin {0, t}
    /\ th.call[th.owner] \notin HandleCalls
    /\ th.sessions = 0
    /\ th' = [th EXCEPT !.owner = t]
    /\ UNCHANGED <<lifecycleVars, rd, fd, sc, gd, rs, api, views, fi, du, cr>>

BeginInstanceCall(t, fn) ==
    /\ t \in th.clonesAt
    /\ th.call[t] = "none"
    /\ fn = "create_flow_writer" => th.owner = 0
    /\ th' = [th EXCEPT !.call[t] = fn]
    /\ UNCHANGED <<lifecycleVars, rd, fd, sc, gd, rs, api, views, fi, du, cr>>

\* a writer a thread creates is owned by that thread; the model keeps one writer
EndInstanceCall(t, status) ==
    /\ th.call[t] \in InstanceCalls
    /\ th' = [th EXCEPT !.call[t] = "none",
                        !.owner = IF /\ th.call[t] = "create_flow_writer"
                                     /\ FromStatus(status) = "Ok"
                                     /\ th.owner = 0
                                  THEN t ELSE @]
    /\ UNCHANGED <<lifecycleVars, rd, fd, sc, gd, rs, api, views, fi, du, cr>>

\* open_grain borrows the writer; destroy and Drop take it whole, so no session is open
BeginWriterCall(t, fn) ==
    /\ WriterReachableFrom(t)
    /\ th.call[t] = "none"
    /\ fn = "open_grain" => th.sessions < MaxSessions
    /\ fn = "release" => th.sessions = 0
    /\ th' = [th EXCEPT !.call[t] = fn]
    /\ UNCHANGED <<lifecycleVars, rd, fd, sc, gd, rs, api, views, fi, du, cr>>

EndWriterCall(t, status) ==
    /\ th.call[t] \in WriterCalls
    /\ th' = [th EXCEPT !.call[t] = "none",
                        !.sessions = IF /\ th.call[t] = "open_grain"
                                        /\ FromStatus(status) = "Ok"
                                     THEN @ + 1 ELSE @,
                        !.owner = IF th.call[t] = "release" THEN 0 ELSE @]
    /\ UNCHANGED <<lifecycleVars, rd, fd, sc, gd, rs, api, views, fi, du, cr>>

\* a session is with the thread that opened it, which still owns the writer
BeginSessionCall(t, fn) ==
    /\ th.sessions > 0
    /\ WriterReachableFrom(t)
    /\ th.call[t] = "none"
    /\ th' = [th EXCEPT !.call[t] = fn]
    /\ UNCHANGED <<lifecycleVars, rd, fd, sc, gd, rs, api, views, fi, du, cr>>

EndSessionCall(t) ==
    /\ th.call[t] \in SessionCalls
    /\ th' = [th EXCEPT !.call[t] = "none", !.sessions = @ - 1]
    /\ UNCHANGED <<lifecycleVars, rd, fd, sc, gd, rs, api, views, fi, du, cr>>

NextThreads ==
    \/ \E t \in Threads : SendClone(t)
    \/ \E t \in Threads : MoveWriter(t)
    \/ \E t \in Threads, fn \in InstanceCalls : BeginInstanceCall(t, fn)
    \/ \E t \in Threads, status \in NativeStatuses : EndInstanceCall(t, status)
    \/ \E t \in Threads, fn \in WriterCalls : BeginWriterCall(t, fn)
    \/ \E t \in Threads, status \in NativeStatuses : EndWriterCall(t, status)
    \/ \E t \in Threads, fn \in SessionCalls : BeginSessionCall(t, fn)
    \/ \E t \in Threads : EndSessionCall(t)

SpecThreads == InitStatus /\ [][NextThreads]_vars

\* C13: at most one thread at a time executes a native call on the writer handle,
\* calls of its write sessions included, and that thread is the one that owns the
\* writer.
C13_OneThreadPerHandle ==
    /\ Cardinality(InHandle) <= 1
    /\ \A t \in InHandle : t = th.owner

\* the writer has been moved to the second thread, which is in a call of a write
\* session, while the first thread is in a call through its clone of the instance
C13_Witness ==
    /\ th.owner = 2
    /\ th.call[2] \in SessionCalls
    /\ th.call[1] \in InstanceCalls
    /\ th.clonesAt = Threads

(***************************************************************************)
(* The MxlFlowReader of rust-bindings: destroy takes &mut self, so the      *)
(* reader is still there after it, with a null handle, and get_info and     *)
(* get_complete_grain can be called on it.                                  *)
(***************************************************************************)
\* MxlFlowReader::get_info: one native call with self.reader, whatever it is
MxlFlowReaderGetInfo(handle, status) ==
    [result |-> status_to_result(status), calls |-> <<handle>>]

\* MxlFlowReader::get_complete_grain: `polls` native calls with self.reader, the
\* last one returning `status` and the payload pointer `payload`
MxlFlowReaderGetCompleteGrain(handle, polls, status, payload) ==
    [result |-> IF status_to_result(status) # "Ok" THEN status_to_result(status)
                ELSE IF payload = NULL THEN "Other"
                ELSE "Ok",
     calls |-> [i \in 1..polls |-> handle]]

\* a read of the reader in slot w returned: ret.handle is the handle it passed
ReadReturns(w, op, r) ==
    /\ ret' = [Ret(op, r.result, Len(r.calls))
                  EXCEPT !.kind = wrappers[w].kind,
                         !.handle = wrappers[w].handle,
                         !.releases = released[w]]
    /\ UNCHANGED <<strong, clones, instance, destroyed, wrappers, released, tmpLive,
                   sessions, flow, rd, fd, sc, auxVars>>

GetInfoMxlFlowReader(w, status) ==
    /\ Live(w)
    /\ wrappers[w].kind = "MxlFlowReader"
    /\ ReadReturns(w, "get_info", MxlFlowReaderGetInfo(wrappers[w].handle, status))

GetCompleteGrainMxlFlowReader(w, polls, status, payload) ==
    /\ Live(w)
    /\ wrappers[w].kind = "MxlFlowReader"
    /\ ReadReturns(w, "get_complete_grain",
                   MxlFlowReaderGetCompleteGrain(wrappers[w].handle, polls, status,
                                                 payload))

\* the readers of both crates: those of rust/mxl end with the destroy or Drop that
\* releases them, an MxlFlowReader can be read after its destroy
NextBindings ==
    \/ CreateFlowReader
    \/ \E w \in WrapperIds, want \in BOOLEAN, status \in NativeStatuses :
        ConvertReader(w, want, status)
    \/ \E w \in WrapperIds, status \in NativeStatuses : DestroyWrapper(w, status, status)
    \/ \E w \in WrapperIds, status \in NativeStatuses : DropWrapper(w, status)
    \/ CreateMxlFlowReader
    \/ \E w \in WrapperIds, status \in NativeStatuses : DestroyMxlFlowReader(w, status)
    \/ \E w \in WrapperIds, status \in NativeStatuses : DropMxlFlowReader(w, status)
    \/ \E w \in WrapperIds, status \in StatusValues : GetInfoMxlFlowReader(w, status)
    \/ \E w \in WrapperIds, polls \in 1..MaxPolls, status \in StatusValues,
          payload \in {NULL, <<"payload">>} :
        GetCompleteGrainMxlFlowReader(w, polls, status, payload)

SpecBindings == Init /\ [][NextBindings]_vars

BindingsReads == {"get_info", "get_complete_grain"}

\* C14: a read of an MxlFlowReader makes its native calls with a handle that is not
\* null and has not been released.
C14_NoNativeCallAfterRelease ==
    ret.op \in BindingsReads /\ ret.native > 0 =>
        ret.handle # NULL /\ ret.releases = 0

\* get_info on a destroyed reader: one native call, with the null handle
C14_Witness ==
    /\ ret.op = "get_info"
    /\ ret.releases = 1
    /\ ret.handle = NULL
    /\ ret.native = 1

\* C16: MxlInstance::destroy returns Ok exactly when no other clone, reader, writer
\* or write session holds the context; otherwise it returns Other ("Instance is
\* still in use.") and no native destroy-instance call is issued.
C16_OkIffSoleHolder ==
    ret.op = "destroy_instance" =>
        /\ ret.result \in {"Ok", "Other"}
        /\ ret.result = "Ok" <=> clones + ArcHolders = 0
        /\ ret.result = "Other" => ret.native = 0 /\ destroyed = <<>>

\* destroy was refused while a reader or writer was alive and no other clone was
C16_Witness ==
    /\ ret.op = "destroy_instance"
    /\ ret.result = "Other"
    /\ clones = 0
    /\ ArcHolders > 0
    /\ destroyed = <<>>

\* C17: when MxlInstance::destroy returns Ok, the native destroy-instance has been
\* called exactly once, with the handle the instance was created with.
C17_DestroysCreatedHandle ==
    ret.op = "destroy_instance" /\ ret.result = "Ok" => destroyed = <<INST>>

\* destroy returned Ok and the one native destroy-instance call was passed null
C17_Witness ==
    /\ ret.op = "destroy_instance"
    /\ ret.result = "Ok"
    /\ destroyed = <<NULL>>
    /\ instance = NULL

(***************************************************************************)
(* GrainReader::get_grain_non_blocking and the GrainData it returns.        *)
(***************************************************************************)
\* what mxl_flow_reader_get_grain_non_blocking may report: the grain at the head,
\* complete or partial, if the head is at the index, and an error otherwise
NativeGetGrainNonBlocking(f, index, info, payload) ==
    (IF f.head = index
     THEN {[status |-> "MXL_STATUS_OK",
            info |-> [commitedSize |-> f.commitedSize, grainSize |-> GrainSize],
            payload |-> p] : p \in {<<"payload">>, NULL}}
     ELSE IF f.head > index
     THEN {[status |-> "MXL_ERR_OUT_OF_RANGE_TOO_LATE", info |-> info, payload |-> payload]}
     ELSE {[status |-> "MXL_ERR_OUT_OF_RANGE_TOO_EARLY", info |-> info, payload |-> payload]})
    \cup {[status |-> "MXL_ERR_UNKNOWN", info |-> info, payload |-> payload]}

\* the body of get_grain_non_blocking after the native read: the payload slice is
\* from_raw_parts(payload_ptr, grainSize) over the flow's ring buffer, the
\* user_data slice is a reference to the userData field of the local grain_info
GrainDataOf(status, info, payload) ==
    IF FromStatus(status) # "Ok"
    THEN [result |-> FromStatus(status), payload |-> NoSlice, user_data |-> NoSlice,
          total_size |-> 0]
    ELSE IF payload = NULL
    THEN [result |-> "Other", payload |-> NoSlice, user_data |-> NoSlice,
          total_size |-> 0]
    ELSE [result |-> "Ok",
          payload |-> [storage |-> "ring", len |-> info.grainSize],
          user_data |-> [storage |-> "frame", len |-> 0],
          total_size |-> info.grainSize]

\* get_grain_non_blocking(index) is called, reads and builds its result
GetGrainNonBlocking(index) ==
    /\ gd.pc = "idle"
    /\ \E o \in NativeGetGrainNonBlocking(flow, index, IdleGd.info, NULL) :
        LET g == GrainDataOf(o.status, o.info, o.payload) IN
        gd' = [IdleGd EXCEPT !.pc = "built", !.index = index, !.status = o.status,
                             !.info = o.info, !.result = g.result,
                             !.payload = g.payload, !.user_data = g.user_data,
                             !.total_size = g.total_size, !.frame = "live"]
    /\ UNCHANGED <<lifecycleVars, rd, fd, sc, th, rs, api, views, fi, du, cr>>

\* the call returns: its stack frame, with grain_info in it, is gone
GetGrainNonBlockingReturns ==
    /\ gd.pc = "built"
    /\ gd' = [gd EXCEPT !.pc = "held", !.frame = "ended"]
    /\ UNCHANGED <<lifecycleVars, rd, fd, sc, th, rs, api, views, fi, du, cr>>

\* the storage that is allocated: the ring buffer while the reader is not released
\* (the GrainData borrows the reader), the frame of the call while it runs
AllocatedStorage == {"ring"} \cup (IF gd.frame = "live" THEN {"frame"} ELSE {})

\* the caller reads user_data of the GrainData it holds: a read of storage that is
\* no longer allocated yields whatever the memory holds by then
ReadUserData ==
    /\ gd.pc = "held"
    /\ gd.result = "Ok"
    /\ gd.seen = "none"
    /\ \E v \in (IF gd.user_data.storage \in AllocatedStorage
                  THEN {"user_data"}
                  ELSE {"user_data", "garbage"}) :
        gd' = [gd EXCEPT !.seen = v]
    /\ UNCHANGED <<lifecycleVars, rd, fd, sc, th, rs, api, views, fi, du, cr>>

\* the caller reads the payload of the GrainData it holds: the ring buffer is shared
\* with the writer, so once the writer has written again the bytes may be others
ReadPayload ==
    /\ gd.pc = "held"
    /\ gd.result = "Ok"
    /\ gd.read = "none"
    /\ \E v \in (IF flow.head = gd.index /\ flow.commitedSize = gd.info.commitedSize
                  THEN {"grain"}
                  ELSE {"grain", "overwritten"}) :
        gd' = [gd EXCEPT !.read = v]
    /\ UNCHANGED <<lifecycleVars, rd, fd, sc, th, rs, api, views, fi, du, cr>>

\* the caller lets go of the result
DropGrainData ==
    /\ gd.pc = "held"
    /\ gd' = IdleGd
    /\ UNCHANGED <<lifecycleVars, rd, fd, sc, th, rs, api, views, fi, du, cr>>

NextGrainData ==
    \/ \E index \in Indices : GetGrainNonBlocking(index)
    \/ GetGrainNonBlockingReturns
    \/ ReadUserData
    \/ ReadPayload
    \/ DropGrainData
    \/ \E index \in Indices, n \in 0..(GrainSize + 1), open \in NativeOpens,
          status \in NativeStatuses :
        WriteGrain(index, n, open, status)

SpecGrainData == InitGrain /\ [][NextGrainData]_vars

\* C18: get_grain_non_blocking returns, for the grain it read, a payload as long as
\* the committed size and total_size equal to the grain size.
C18_PayloadIsCommittedSize ==
    gd.result = "Ok" =>
        /\ gd.payload.len = gd.info.commitedSize
        /\ gd.total_size = gd.info.grainSize

\* a partial grain was read: the payload is as long as the whole grain
C18_Witness ==
    /\ gd.pc = "held"
    /\ gd.result = "Ok"
    /\ gd.info.commitedSize < gd.info.grainSize
    /\ gd.payload.len = gd.info.grainSize
    /\ gd.total_size = gd.info.grainSize

\* C19: both slices of a GrainData that was returned refer to storage that is
\* still allocated.
C19_SlicesOutliveTheCall ==
    gd.pc = "held" /\ gd.result = "Ok" =>
        /\ gd.payload.storage \in AllocatedStorage
        /\ gd.user_data.storage \in AllocatedStorage

\* the caller read user_data after the call returned and found something else
C19_Witness ==
    /\ gd.pc = "held"
    /\ gd.result = "Ok"
    /\ gd.payload.storage = "ring"
    /\ gd.user_data.storage = "frame"
    /\ gd.frame = "ended"
    /\ gd.seen = "garbage"

(***************************************************************************)
(* read_samples of the example flow reader: read a batch, then sleep and    *)
(* poll the head index until the next batch is there or READ_TIMEOUT is     *)
(* over. Time is counted in seconds since the deadline was set.             *)
(***************************************************************************)
READ_TIMEOUT == 5

\* read_samples is called: the batch size is settled and the head index is read
ReadSamples(batch_size, status) ==
    /\ rs.pc = "idle"
    /\ rs.result = "none"
    /\ rs' = IF FromStatus(status) # "Ok"
             THEN [rs EXCEPT !.pc = "done", !.result = FromStatus(status)]
             ELSE [rs EXCEPT !.pc = "read", !.batch_size = batch_size,
                             !.read_head = rs.headIndex, !.observed = rs.headIndex]
    /\ UNCHANGED <<lifecycleVars, rd, fd, sc, th, gd, api, views, fi, du, cr>>

\* top of the outer loop: get_samples(read_head, batch_size), then the deadline is set
GetSamples(status) ==
    /\ rs.pc = "read"
    /\ rs.read_head + rs.batch_size <= MaxHead
    /\ rs' = IF FromStatus(status) # "Ok"
             THEN [rs EXCEPT !.pc = "done", !.result = FromStatus(status)]
             ELSE [rs EXCEPT !.pc = "sleep", !.next_head = rs.read_head + rs.batch_size,
                             !.elapsed = 0]
    /\ UNCHANGED <<lifecycleVars, rd, fd, sc, th, gd, api, views, fi, du, cr>>

\* a second passes while the reader sleeps (or is about to)
SleepTick ==
    /\ rs.pc = "sleep"
    /\ rs.elapsed < READ_TIMEOUT
    /\ rs' = [rs EXCEPT !.elapsed = @ + 1]
    /\ UNCHANGED <<lifecycleVars, rd, fd, sc, th, gd, api, views, fi, du, cr>>

\* the inner loop after sleep_for returned: the deadline, then get_info, then the
\* comparison; `observed` is the head index of the last get_info that succeeded
AfterSleep(elapsed, status, available_head, read_head, next_head, observed) ==
    IF elapsed >= READ_TIMEOUT
    THEN [pc |-> "done", result |-> "Timeout", observed |-> observed,
          read_head |-> read_head]
    ELSE IF FromStatus(status) # "Ok"
    THEN [pc |-> "done", result |-> FromStatus(status), observed |-> observed,
          read_head |-> read_head]
    ELSE IF available_head >= next_head
    THEN [pc |-> "read", result |-> "none", observed |-> available_head,
          read_head |-> next_head]
    ELSE [pc |-> "sleep", result |-> "none", observed |-> available_head,
          read_head |-> read_head]

\* sleep_for returns and the inner loop runs up to its next sleep
Wake(status) ==
    /\ rs.pc = "sleep"
    /\ LET a == AfterSleep(rs.elapsed, status, rs.headIndex, rs.read_head, rs.next_head,
                           rs.observed)
       IN rs' = [rs EXCEPT !.pc = a.pc, !.result = a.result, !.observed = a.observed,
                           !.read_head = a.read_head]
    /\ UNCHANGED <<lifecycleVars, rd, fd, sc, th, gd, api, views, fi, du, cr>>

\* the writer of the flow commits samples: the head index advances
WriterAdvances(n) ==
    /\ rs.pc # "done"
    /\ rs.headIndex + n <= MaxHead
    /\ rs' = [rs EXCEPT !.headIndex = @ + n]
    /\ UNCHANGED <<lifecycleVars, rd, fd, sc, th, gd, api, views, fi, du, cr>>

\* read_samples has returned and is called again later
ReadSamplesReturns ==
    /\ rs.pc = "done"
    /\ rs' = [IdleRs EXCEPT !.headIndex = rs.headIndex]
    /\ UNCHANGED <<lifecycleVars, rd, fd, sc, th, gd, api, views, fi, du, cr>>

NextReadSamples ==
    \/ \E batch_size \in 1..MaxBatchSize, status \in NativeStatuses :
        ReadSamples(batch_size, status)
    \/ \E status \in NativeStatuses : GetSamples(status)
    \/ SleepTick
    \/ \E status \in NativeStatuses : Wake(status)
    \/ \E n \in 1..MaxBatchSize : WriterAdvances(n)
    \/ ReadSamplesReturns

SpecReadSamples == InitStatus /\ [][NextReadSamples]_vars

\* C20 (as claimed): read_samples returns Timeout only if READ_TIMEOUT has elapsed
\* and the head index it observed is still below read_head + batch_size.
C20_TimeoutOnlyIfHeadBehind ==
    rs.result = "Timeout" =>
        rs.elapsed >= READ_TIMEOUT /\ rs.observed < rs.next_head

\* Timeout was returned although the head index last observed, and the head index
\* itself, had reached read_head + batch_size
C20_Witness ==
    /\ rs.result = "Timeout"
    /\ rs.elapsed >= READ_TIMEOUT
    /\ rs.observed >= rs.next_head
    /\ rs.headIndex >= rs.next_head
    /\ rs.next_head = rs.read_head + rs.batch_size

(***************************************************************************)
(* load_api: Container::load opens the shared object and resolves every     *)
(* field of MxlApi by its symbol name, in order; none of the fields is      *)
(* optional. A dlopen2 error becomes Error::DlOpen.                         *)
(***************************************************************************)
\* a loader that leaves the pointer of a missing symbol unset and goes on
ResolveSkipsMissing(lib, resolved, symbol) ==
    [ok |-> TRUE, resolved |-> IF symbol \in lib THEN resolved \cup {symbol} ELSE resolved]

\* the lookup of one field of MxlApi in the library
Resolve(lib, resolved, symbol) ==
    IF symbol \in lib
    THEN [ok |-> TRUE, resolved |-> resolved \cup {symbol}]
    ELSE [ok |-> FALSE, resolved |-> resolved]

\* load_api(path) is called: the library at the path exports `lib`, and it can be
\* opened or not
LoadApi(lib, opens) ==
    /\ api.pc = "idle"
    /\ api.handle = NULL
    /\ api' = IF opens
              THEN [IdleApi EXCEPT !.pc = "resolving", !.lib = lib, !.opened = TRUE]
              ELSE [IdleApi EXCEPT !.pc = "done", !.lib = lib, !.result = "DlOpen"]
    /\ UNCHANGED <<lifecycleVars, rd, fd, sc, th, gd, rs, views, fi, du, cr>>

\* the next field of the table is looked up; after the last one the handle, a
\* Container around the table, is built
ResolveNext ==
    /\ api.pc = "resolving"
    /\ LET symbol == Cardinality(api.resolved) + 1
           r == Resolve(api.lib, api.resolved, symbol)
       IN api' = IF ~r.ok
                 THEN [api EXCEPT !.pc = "done", !.result = "DlOpen", !.resolved = {}]
                 ELSE IF symbol = TableSize
                 THEN [api EXCEPT !.pc = "done", !.result = "Ok",
                                  !.resolved = r.resolved, !.handle = <<r.resolved>>]
                 ELSE [api EXCEPT !.resolved = r.resolved]
    /\ UNCHANGED <<lifecycleVars, rd, fd, sc, th, gd, rs, views, fi, du, cr>>

\* the caller takes the error and may try another path
LoadApiFailed ==
    /\ api.pc = "done"
    /\ api.result = "DlOpen"
    /\ api' = IdleApi
    /\ UNCHANGED <<lifecycleVars, rd, fd, sc, th, gd, rs, views, fi, du, cr>>

\* MxlInstance::new(api, ..) takes the API handle
NewInstance ==
    /\ api.handle # NULL
    /\ api.instances < MaxClones
    /\ api' = [api EXCEPT !.instances = @ + 1]
    /\ UNCHANGED <<lifecycleVars, rd, fd, sc, th, gd, rs, views, fi, du, cr>>

\* a method of an MxlInstance calls through a field of the table
CallSymbol(symbol) ==
    /\ api.instances > 0
    /\ api' = [api EXCEPT !.called = @ \cup {symbol}]
    /\ UNCHANGED <<lifecycleVars, rd, fd, sc, th, gd, rs, views, fi, du, cr>>

NextApi ==
    \/ \E lib \in SUBSET Symbols, opens \in BOOLEAN : LoadApi(lib, opens)
    \/ ResolveNext
    \/ LoadApiFailed
    \/ NewInstance
    \/ \E symbol \in Symbols : CallSymbol(symbol)

SpecApi == InitStatus /\ [][NextApi]_vars

\* C15: an API handle exists only with every symbol of the table resolved in the
\* library; a library that cannot be opened or lacks a symbol gives Error::DlOpen
\* and no handle; without a handle there is no instance, and every native call goes
\* through a resolved entry.
C15_AllSymbolsOrDlOpen ==
    /\ api.handle # NULL => api.handle = <<Symbols>> /\ Symbols \subseteq api.lib
    /\ api.pc = "done" =>
        /\ api.result = "Ok" <=> api.opened /\ Symbols \subseteq api.lib
        /\ api.result = "DlOpen" <=> api.handle = NULL
        /\ api.result \in {"Ok", "DlOpen"}
    /\ api.handle = NULL => api.instances = 0 /\ api.called = {}
    /\ api.called \subseteq api.resolved

\* the library opened and its last symbol was missing: DlOpen, no handle, no call
C15_Witness ==
    /\ api.pc = "done"
    /\ api.opened
    /\ api.result = "DlOpen"
    /\ api.lib = Symbols \ {TableSize}
    /\ api.handle = NULL
    /\ api.instances = 0

(***************************************************************************)
(* Borrows: a view (GrainData, SamplesData) borrows the reader it was read  *)
(* from, a write session borrows the writer it was opened from.             *)
(***************************************************************************)
\* get_complete_grain / get_grain_non_blocking / get_samples on the reader in slot w
GetView(w, status) ==
    /\ Live(w)
    /\ wrappers[w].kind \in TypedReaders
    /\ views[w] < MaxSessions
    /\ views' = IF FromStatus(status) = "Ok" THEN [views EXCEPT ![w] = @ + 1] ELSE views
    /\ ret' = [Ret("read", FromStatus(status), 1) EXCEPT !.kind = wrappers[w].kind]
    /\ UNCHANGED <<strong, clones, instance, destroyed, wrappers, released, tmpLive,
                   sessions, flow, rd, fd, sc, th, gd, rs, api, fi, du, cr>>

\* a view goes out of scope: it owns nothing and calls nothing
DropView(w) ==
    /\ views[w] > 0
    /\ views' = [views EXCEPT ![w] = @ - 1]
    /\ ret' = [Ret("view_drop", "Ok", 0) EXCEPT !.kind = wrappers[w].kind]
    /\ UNCHANGED <<strong, clones, instance, destroyed, wrappers, released, tmpLive,
                   sessions, flow, rd, fd, sc, th, gd, rs, api, fi, du, cr>>

NextBorrow ==
    \/ CreateFlowReader
    \/ CreateFlowWriter
    \/ \E w \in WrapperIds, want \in BOOLEAN, status \in NativeStatuses :
        ConvertReader(w, want, status)
    \/ \E w \in WrapperIds, want \in BOOLEAN, status \in NativeStatuses :
        \E create \in {<<"MXL_STATUS_OK", <<"tmp">> >>, <<"MXL_ERR_UNKNOWN", NULL>>} :
            ConvertWriter(w, want, create, status)
    \/ \E w \in WrapperIds, status \in NativeStatuses : DestroyWrapper(w, status, status)
    \/ \E w \in WrapperIds, status \in NativeStatuses : DropWrapper(w, status)
    \/ \E w \in WrapperIds, index \in Indices : OpenGrain(w, index)
    \/ \E w \in WrapperIds, index \in Indices : OpenSamples(w, index)
    \/ \E s \in OpenSessions, status \in NativeStatuses : CancelSession(s, status)
    \/ \E s \in OpenSessions, status \in NativeStatuses : DropSession(s, status)
    \/ \E w \in WrapperIds, status \in NativeStatuses : GetView(w, status)
    \/ \E w \in WrapperIds : DropView(w)

SpecBorrow == Init /\ [][NextBorrow]_vars

\* C21: while a view of a reader or a write session of a writer is alive, the
\* wrapper it came from is alive, holds its handle and has issued no release.
C21_ReleaseAfterBorrowsEnd ==
    /\ \A s \in OpenSessions :
        /\ Live(s.w)
        /\ wrappers[s.w].kind \in TypedWriters
        /\ wrappers[s.w].handle # NULL
        /\ released[s.w] = 0
    /\ \A w \in WrapperIds :
        views[w] > 0 =>
            /\ Live(w)
            /\ wrappers[w].kind \in TypedReaders
            /\ wrappers[w].handle # NULL
            /\ released[w] = 0

\* the last session of a writer ended with its cancel-on-drop while the writer was
\* alive and unreleased
C21_Witness ==
    /\ ret.op = "session_drop"
    /\ ret.dropCancels = 1
    /\ sessions = EmptyBag
    /\ \E w \in WrapperIds :
        Live(w) /\ wrappers[w].kind \in TypedWriters /\ released[w] = 0

\* C22: open_grain is forwarded to the native library whether or not a grain of the
\* writer is already open, and the native cancel of a session names only the
\* writer handle: two sessions of one writer issue the same cancel call.
C22_OpenGrainNotExclusive ==
    /\ ret.op = "open_grain" => ret.native = 1
    /\ ret.op \in {"cancel", "session_drop"} /\ ret.kind = "grain" =>
        ret.cancels = 1 /\ ret.commits = 0
    /\ \A s1, s2 \in OpenSessions :
        s1.w = s2.w => NativeCancelCall(s1) = NativeCancelCall(s2)

\* a second open_grain succeeded on a writer with an open session: two live
\* sessions share the writer handle
C22_Witness ==
    /\ ret.op = "open_grain"
    /\ ret.result = "Ok"
    /\ BagCardinality(sessions) >= 2
    /\ \A s1, s2 \in OpenSessions : s1.w = s2.w
    /\ \A s \in OpenSessions : wrappers[s.w].kind = "GrainWriter"

(***************************************************************************)
(* Write sessions of one GrainWriter, committed with every size up to one   *)
(* past the grain size.                                                     *)
(***************************************************************************)
NextCommit ==
    \/ \E index \in Indices : OpenGrain(1, index)
    \/ \E s \in OpenSessions, n \in 0..(GrainSize + 1), status \in NativeStatuses :
        CommitGrain(s, n, status)
    \/ \E s \in OpenSessions, status \in NativeStatuses : CancelSession(s, status)
    \/ \E s \in OpenSessions, status \in NativeStatuses : DropSession(s, status)

SpecCommit == InitGrain /\ [][NextCommit]_vars

\* C23: commit(n) of a grain session with n above the grain size returns Other and
\* issues no native commit; with n at most the grain size it issues exactly one
\* native commit, which carries n: the size the library publishes on success is n,
\* and no size above the grain size is ever published.
C23_CommitSizeBounded ==
    /\ flow.commitedSize <= GrainSize
    /\ ret.op = "commit" /\ ret.kind = "grain" =>
        /\ ret.size > GrainSize =>
            ret.result = "Other" /\ ret.commits = 0 /\ ret.native = 0
        /\ ret.size <= GrainSize =>
            /\ ret.commits = 1
            /\ ret.result # "Other"
            /\ ret.result = "Ok" => flow.commitedSize = ret.size

\* a partial commit went through: one native commit, the size published is below
\* the grain size
C23_Witness ==
    /\ ret.op = "commit"
    /\ ret.kind = "grain"
    /\ ret.result = "Ok"
    /\ ret.commits = 1
    /\ ret.size > 0
    /\ ret.size < GrainSize
    /\ flow.commitedSize = ret.size

(***************************************************************************)
(* Conversions of the generic wrappers, over every data format.             *)
(***************************************************************************)
\* after MxlInstance::new succeeded on a domain holding one flow of any format
InitConvert ==
    /\ strong = 1
    /\ clones = 1
    /\ instance = INST
    /\ destroyed = <<>>
    /\ wrappers = [w \in WrapperIds |-> NoWrapper]
    /\ released = [w \in WrapperIds |-> 0]
    /\ tmpLive = 0
    /\ sessions = EmptyBag
    /\ \E format \in AllDataFormats : flow = NewFlow(format)
    /\ ret = Ret("new", "Ok", 1)
    /\ rd = IdleRd
    /\ fd = IdleFd
    /\ sc = IdleSc
    /\ AuxIdle

NextConvert ==
    \/ CreateFlowReader
    \/ CreateFlowWriter
    \/ \E w \in WrapperIds, want \in BOOLEAN, status \in NativeStatuses :
        ConvertReader(w, want, status)
    \/ \E w \in WrapperIds, want \in BOOLEAN, status \in NativeStatuses :
        \E create \in {<<"MXL_STATUS_OK", <<"tmp">> >>, <<"MXL_ERR_UNKNOWN", NULL>>} :
            ConvertWriter(w, want, create, status)
    \/ \E w \in WrapperIds, status \in NativeStatuses : DestroyWrapper(w, status, status)
    \/ \E w \in WrapperIds, status \in NativeStatuses : DropWrapper(w, status)

SpecConvert == InitConvert /\ [][NextConvert]_vars

C25_NoHandleLeak ==
    /\ [](tmpLive = 0)
    /\ [][\A w \in WrapperIds :
            (wrappers[w].handle # NULL /\ wrappers'[w].handle # wrappers[w].handle) =>
                /\ ret'.releases >= 1
                /\ ret'.kind = wrappers[w].kind]_vars

\* a writer conversion failed after its temporary reader was created, asked
\* and released, the writer's own handle was released, and no wrapper is left
C25_Witness ==
    /\ ret.op \in {"to_grain_writer", "to_samples_writer"}
    /\ ret.result = "Other"
    /\ ret.native = 4
    /\ ret.releases = 1
    /\ tmpLive = 0
    /\ \A w \in WrapperIds : ~Live(w)

(***************************************************************************)
(* The typed accessors of a FlowInfo.                                       *)
(***************************************************************************)
\* DataFormat::from: every value that is not a named format is Unspecified
DataFormatFrom(format) ==
    IF format \in {"video", "audio", "data", "mux"} THEN format ELSE "unspecified"

\* FlowConfigInfo::discrete
FlowConfigInfoDiscrete(format) ==
    IF ~is_discrete_data_format(format) THEN "Other" ELSE "Ok"

\* FlowConfigInfo::continuous
FlowConfigInfoContinuous(format) ==
    IF is_discrete_data_format(format) THEN "Other" ELSE "Ok"

\* CommonFlowConfigInfo::grain_rate
GrainRate(format) ==
    IF DataFormatFrom(format) # "video" /\ DataFormatFrom(format) # "data"
    THEN "Other" ELSE "Ok"

\* CommonFlowConfigInfo::sample_rate
SampleRate(format) ==
    IF DataFormatFrom(format) # "audio" THEN "Other" ELSE "Ok"

\* get_info on the reader in slot w: the FlowInfo is an owned copy
GetInfo(w, status) ==
    /\ Live(w)
    /\ wrappers[w].kind \in {"FlowReader"} \cup TypedReaders
    /\ fi' = IF FromStatus(status) = "Ok"
             THEN [IdleFi EXCEPT !.format = flow.format]
             ELSE IdleFi
    /\ ret' = [Ret("get_info", FromStatus(status), 1) EXCEPT !.kind = wrappers[w].kind]
    /\ UNCHANGED <<strong, clones, instance, destroyed, wrappers, released, tmpLive,
                   sessions, flow, rd, fd, sc, th, gd, rs, api, views, du, cr>>

\* one accessor is called on the FlowInfo at hand
CallAccessor(name) ==
    /\ fi.format # "none"
    /\ fi[name] = "none"
    /\ fi' = [fi EXCEPT ![name] =
                CASE name = "discrete" -> FlowConfigInfoDiscrete(fi.format)
                  [] name = "continuous" -> FlowConfigInfoContinuous(fi.format)
                  [] name = "grain_rate" -> GrainRate(fi.format)
                  [] OTHER -> SampleRate(fi.format)]
    /\ UNCHANGED <<lifecycleVars, rd, fd, sc, th, gd, rs, api, views, du, cr>>

NextFlowInfo ==
    \/ CreateFlowReader
    \/ \E w \in WrapperIds, want \in BOOLEAN, status \in NativeStatuses :
        ConvertReader(w, want, status)
    \/ \E w \in WrapperIds, status \in NativeStatuses : DropWrapper(w, status)
    \/ \E w \in WrapperIds, status \in NativeStatuses : GetInfo(w, status)
    \/ \E name \in {"discrete", "continuous", "grain_rate", "sample_rate"} :
        CallAccessor(name)

SpecFlowInfo == InitConvert /\ [][NextFlowInfo]_vars

\* C26: on one FlowInfo, continuous() returns Ok only for audio and exactly
\* when sample_rate() does; discrete() returns Ok exactly when grain_rate()
\* does, which is for video and data.
C26_AccessorsAgree ==
    /\ fi.continuous = "Ok" => fi.format = "audio"
    /\ fi.continuous # "none" /\ fi.sample_rate # "none" =>
        (fi.continuous = "Ok" <=> fi.sample_rate = "Ok")
    /\ fi.discrete # "none" /\ fi.grain_rate # "none" =>
        (fi.discrete = "Ok" <=> fi.grain_rate = "Ok")
    /\ fi.discrete = "Ok" => fi.format \in {"video", "data"}

\* a mux flow: continuous() answered Ok where sample_rate() answered an error
C26_Witness ==
    /\ fi.format = "mux"
    /\ fi.continuous = "Ok"
    /\ fi.sample_rate = "Other"

(***************************************************************************)
(* Durations handed to the native library as a nanosecond count.  The word  *)
(* is WordBits wide and a second has NanosPerSec nanoseconds: the widths    *)
(* 64 and 10^9 of the program, scaled down together.                        *)
(***************************************************************************)
WordBits == 4
NanosPerSec == 4
MaxSecs == 8

\* the values of a word of the native interface (u64)
WordModulus == 2 ^ WordBits

\* the Duration values a caller may hold: whole seconds and a sub-second part
Durations == [secs : 0..MaxSecs, nanos : 0..(NanosPerSec - 1)]

\* Duration::as_nanos: the exact count, in a type twice as wide
as_nanos(d) == d.secs * NanosPerSec + d.nanos

\* `as u64` on the wider count: the low word
as_u64(n) == n % WordModulus

\* GrainReader::get_complete_grain: let timeout_ns = timeout.as_nanos() as u64
GetCompleteGrainTimeoutNs(timeout) == as_u64(as_nanos(timeout))

\* SamplesReader::get_samples: let timeout_ns = timeout.as_nanos() as u64
GetSamplesTimeoutNs(timeout) == as_u64(as_nanos(timeout))

\* MxlInstance::sleep_for: mxl_sleep_for_ns(duration.as_nanos() as u64)
SleepForNs(duration) == as_u64(as_nanos(duration))

\* a caller holding any Duration, on a live instance
InitDuration ==
    /\ strong = 1
    /\ clones = 1
    /\ instance = INST
    /\ destroyed = <<>>
    /\ wrappers = [w \in WrapperIds |-> NoWrapper]
    /\ released = [w \in WrapperIds |-> 0]
    /\ tmpLive = 0
    /\ sessions = EmptyBag
    /\ flow = NewFlow("video")
    /\ ret = Ret("new", "Ok", 1)
    /\ rd = IdleRd
    /\ fd = IdleFd
    /\ sc = IdleSc
    /\ th = IdleTh
    /\ gd = IdleGd
    /\ rs = IdleRs
    /\ api = IdleApi
    /\ views = IdleViews
    /\ fi = IdleFi
    /\ cr = IdleCr
    /\ \E d \in Durations : du = [IdleDu EXCEPT !.secs = d.secs, !.nanos = d.nanos]

\* the Duration at hand, as the caller holds it
DurationAtHand == [secs |-> du.secs, nanos |-> du.nanos]

\* get_complete_grain is called with the Duration as its timeout
GetCompleteGrainWith ==
    /\ du' = [du EXCEPT !.op = "get_complete_grain",
                        !.ns = GetCompleteGrainTimeoutNs(DurationAtHand)]
    /\ UNCHANGED <<lifecycleVars, rd, fd, sc, th, gd, rs, api, views, fi, cr>>

\* get_samples is called with the Duration as its timeout
GetSamplesWith ==
    /\ du' = [du EXCEPT !.op = "get_samples",
                        !.ns = GetSamplesTimeoutNs(DurationAtHand)]
    /\ UNCHANGED <<lifecycleVars, rd, fd, sc, th, gd, rs, api, views, fi, cr>>

\* sleep_for is called with the Duration
SleepFor ==
    /\ du' = [du EXCEPT !.op = "sleep_for", !.ns = SleepForNs(DurationAtHand)]
    /\ UNCHANGED <<lifecycleVars, rd, fd, sc, th, gd, rs, api, views, fi, cr>>

NextDuration ==
    \/ GetCompleteGrainWith
    \/ GetSamplesWith
    \/ SleepFor

SpecDuration == InitDuration /\ [][NextDuration]_vars

\* C27: the nanosecond count handed to the native library equals the
\* Duration expressed in nanoseconds, and so is never smaller than it.
C27_NativeNanosEqualDuration ==
    du.op # "none" =>
        /\ du.ns = as_nanos(DurationAtHand)
        /\ du.ns >= as_nanos(DurationAtHand)

\* a Duration beyond the largest word was handed over as a smaller count
C27_Witness ==
    /\ du.op \in {"get_complete_grain", "get_samples", "sleep_for"}
    /\ as_nanos(DurationAtHand) > WordModulus - 1
    /\ du.ns < as_nanos(DurationAtHand)

(***************************************************************************)
(* The create calls, from their string argument on.                         *)
(***************************************************************************)
\* the strings a caller may pass: a UUID, a text without NUL that is no UUID,
\* and a text with an interior NUL (which is no UUID either)
StringArgs == {"uuid", "text", "nul"}

\* CString::new: fails on an interior NUL
CStringNew(s) == IF s = "nul" THEN "NulError" ELSE "Ok"

\* uuid::Uuid::parse_str
ParseUuid(s) == IF s = "uuid" THEN "Ok" ELSE "Error"

LiveWrappers == {w \in WrapperIds : Live(w)}

\* what a create call leaves in `cr`
CreateCall(op, arg, o) ==
    [op |-> op, arg |-> arg, status |-> o[1], handle |-> o[2],
     before |-> Cardinality(LiveWrappers)]

\* a create call that returns before the native call
CreateRejected(op, arg, result) ==
    /\ ret' = Ret(op, result, 0)
    /\ cr' = CreateCall(op, arg, <<"none", NULL>>)
    /\ UNCHANGED <<strong, clones, instance, destroyed, wrappers, released, tmpLive,
                   sessions, flow, rd, fd, sc, th, gd, rs, api, views, fi, du>>

\* before MxlInstance::new: no instance, no context, no wrapper
InitCreate ==
    /\ strong = 0
    /\ clones = 0
    /\ instance = NULL
    /\ destroyed = <<>>
    /\ wrappers = [w \in WrapperIds |-> NoWrapper]
    /\ released = [w \in WrapperIds |-> 0]
    /\ tmpLive = 0
    /\ sessions = EmptyBag
    /\ \E format \in DataFormats : flow = NewFlow(format)
    /\ ret = NoRet
    /\ rd = IdleRd
    /\ fd = IdleFd
    /\ sc = IdleSc
    /\ AuxIdle

\* MxlInstance::new(api, domain, options): `handle` is what mxl_create_instance returns
MxlInstanceNew(domain, options, handle) ==
    /\ strong = 0
    /\ clones = 0
    /\ destroyed = <<>>
    /\ IF CStringNew(domain) # "Ok" \/ CStringNew(options) # "Ok"
       THEN CreateRejected("new", IF CStringNew(domain) # "Ok" THEN domain ELSE options,
                           "Other")
       ELSE /\ cr' = CreateCall("new", domain, <<"none", handle>>)
            /\ ret' = Ret("new", IF handle = NULL THEN "Other" ELSE "Ok", 1)
            /\ instance' = handle
            /\ strong' = IF handle = NULL THEN 0 ELSE 1
            /\ clones' = IF handle = NULL THEN 0 ELSE 1
            /\ UNCHANGED <<destroyed, wrappers, released, tmpLive, sessions, flow,
                           rd, fd, sc, th, gd, rs, api, views, fi, du>>

\* MxlInstance::create_flow_reader(flow_id)
CreateFlowReaderFrom(flow_id) ==
    /\ clones > 0
    /\ FreeSlots # {}
    /\ IF CStringNew(flow_id) # "Ok"
       THEN CreateRejected("create_flow_reader", flow_id, "Other")
       ELSE \E o \in NativeCreates(FreeSlot) :
                /\ CreateFlowReaderWith(o)
                /\ cr' = CreateCall("create_flow_reader", flow_id, o)
                /\ UNCHANGED <<th, gd, rs, api, views, fi, du>>

\* MxlInstance::create_flow_writer(flow_id)
CreateFlowWriterFrom(flow_id) ==
    /\ clones > 0
    /\ FreeSlots # {}
    /\ IF ParseUuid(flow_id) # "Ok" \/ CStringNew(flow_id) # "Ok"
       THEN CreateRejected("create_flow_writer", flow_id, "Other")
       ELSE \E o \in NativeCreates(FreeSlot) :
                /\ CreateFlowWriterWith(o)
                /\ cr' = CreateCall("create_flow_writer", flow_id, o)
                /\ UNCHANGED <<th, gd, rs, api, views, fi, du>>

\* MxlInstance::create_flow_reader(flow_id) of the first iteration
CreateMxlFlowReaderFrom(flow_id) ==
    /\ clones > 0
    /\ FreeSlots # {}
    /\ IF CStringNew(flow_id) # "Ok"
       THEN CreateRejected("create_mxl_flow_reader", flow_id, "InvalidArg")
       ELSE \E o \in NativeCreates(FreeSlot) :
                /\ CreateMxlFlowReaderWith(o)
                /\ cr' = CreateCall("create_mxl_flow_reader", flow_id, o)
                /\ UNCHANGED <<th, gd, rs, api, views, fi, du>>

NextCreate ==
    \/ \E domain, options \in {"text", "nul"}, handle \in {INST, NULL} :
        MxlInstanceNew(domain, options, handle)
    \/ CloneInstance
    \/ DropInstance
    \/ \E flow_id \in StringArgs : CreateFlowReaderFrom(flow_id)
    \/ \E flow_id \in StringArgs : CreateFlowWriterFrom(flow_id)
    \/ \E flow_id \in StringArgs : CreateMxlFlowReaderFrom(flow_id)
    \/ \E w \in WrapperIds, status \in NativeStatuses : DropWrapper(w, status)
    \/ \E w \in WrapperIds, status \in NativeStatuses : DestroyMxlFlowReader(w, status)
    \/ \E w \in WrapperIds, status \in NativeStatuses : DropMxlFlowReader(w, status)

SpecCreate == InitCreate /\ [][NextCreate]_vars

\* the create operations, by the kind of wrapper they construct
CreatedKind ==
    [create_flow_reader |-> "FlowReader", create_flow_writer |-> "MxlFlowWriter",
     create_mxl_flow_reader |-> "MxlFlowReader"]

\* C28: every live wrapper holds a non-null handle.  A create returns Ok only
\* if the native call reported success and a non-null handle, which the new
\* wrapper then holds; otherwise it returns an error and constructs no
\* wrapper; an interior NUL, and for create_flow_writer a flow id that is no
\* UUID, is an error returned before any native call.
C28_LiveWrappersHoldHandles ==
    /\ \A w \in WrapperIds : Live(w) => wrappers[w].handle # NULL
    /\ clones > 0 => instance # NULL
    /\ ret.op = "new" /\ cr.op = "new" =>
        /\ ret.result = "Ok" <=> (cr.arg # "nul" /\ cr.handle # NULL)
        /\ ret.result = "Ok" <=> clones = 1
        /\ cr.arg = "nul" => ret.native = 0
    /\ ret.op = cr.op /\ cr.op \in DOMAIN CreatedKind =>
        /\ ret.result = "Ok" =>
            /\ cr.status = "MXL_STATUS_OK"
            /\ cr.handle # NULL
            /\ Cardinality(LiveWrappers) = cr.before + 1
            /\ \E w \in WrapperIds :
                /\ Live(w)
                /\ wrappers[w].kind = CreatedKind[cr.op]
                /\ wrappers[w].handle = cr.handle
        /\ ret.result # "Ok" => Cardinality(LiveWrappers) = cr.before
        /\ cr.arg = "nul" => ret.result # "Ok" /\ ret.native = 0
        /\ cr.op = "create_flow_writer" /\ cr.arg # "uuid" =>
            ret.result # "Ok" /\ ret.native = 0

\* a reader of the first iteration, created with a handle, is alive without one
C28_Witness ==
    /\ ret.op = "destroy_mxl_flow_reader"
    /\ cr.op = "create_mxl_flow_reader"
    /\ cr.handle # NULL
    /\ \E w \in WrapperIds :
        Live(w) /\ wrappers[w].kind = "MxlFlowReader" /\ wrappers[w].handle = NULL

====
